---- MODULE Spec2Model ----
(***************************************************************************)
(* A model of the recs entity-component-system runtime: the entity        *)
(* manager (generational indices), the sparse-set component storage, the  *)
(* registry facade, the query iterator and the system runner.             *)
(*                                                                         *)
(* Vectors are sequences; a Rust index i is position i + 1 of the         *)
(* sequence.  A u32 generation is kept at its full width as two 16-bit    *)
(* limbs <<hi, lo>>, since the model checker's integers stop at 2^31 - 1. *)
(***************************************************************************)
EXTENDS Integers, Sequences, FiniteSets, TLC

VARIABLES
    generations,      \* EntityManager.generations : Vec<u32>
    free_list,        \* EntityManager.free_list   : Vec<usize>
    components,       \* Registry.components : HashMap<TypeId, Box<dyn ComponentStorage>>
    set,              \* one free-standing SparseSet<C>, as driven by the unit tests of sparse_set.rs
    overflow_checks,  \* the build profile: TRUE = arithmetic overflow panics, FALSE = it wraps
    panicked,         \* a panic has unwound out of the last call
    resources,        \* Registry.resources : ResourceStorage, at most one value per resource type
    systems,          \* Registry.systems : Vec<BoxedSystem>
    run,              \* the position of run_systems in its loop over the systems
    invoked,          \* history: the invocations made by the current or last run_systems
    qiter,            \* the QueryIter the caller holds, if any: its shape and entity_index
    rows,             \* history: the rows the QueryIter has yielded
    alive,            \* history: entities returned by create_entity and not destroyed since
    retired,          \* history: handles destroyed whose index create_entity has not handed out since
    last              \* history: the last call, its arguments and what it returned

vars == <<generations, free_list, components, set, overflow_checks, panicked,
          resources, systems, run, invoked, qiter, rows, alive, retired, last>>

\* the entity manager and its history
emVars == <<generations, free_list, alive, retired>>

\* what no call of the registry's entity and component interface touches
sysVars == <<resources, systems, run, invoked>>

otherVars == <<set, overflow_checks, qiter, rows, sysVars>>

(***************************************************************************)
(* Bounds of the model.                                                    *)
(***************************************************************************)
\* the generation table is not extended past this length
MaxEntities == 2
\* an index whose generation is <<0, MaxGen>> is not destroyed again
MaxGen == 2
\* component values are 0 .. MaxVal
MaxVal == 1
\* a bundle passed to spawn holds at most MaxBundle components
MaxBundle == 2
\* the system list holds at most MaxSystems systems
MaxSystems == 2
\* time_reader_system counts at most MaxTicks above a value that was inserted or marked,
\* movement_system stops moving at MaxPos
MaxTicks == 1
MaxPos == 2

(***************************************************************************)
(* u32 arithmetic on two 16-bit limbs.                                     *)
(***************************************************************************)
\* 2^16: one limb of a u32
Limb == 65536

U32(n) == <<0, n>>

U32Max == <<Limb - 1, Limb - 1>>

U32Lt(a, b) == a[1] < b[1] \/ (a[1] = b[1] /\ a[2] < b[2])

\* u32 `+ 1` as the release profile computes it (wrapping)
WrappingInc(g) ==
    IF g[2] < Limb - 1 THEN <<g[1], g[2] + 1>>
    ELSE IF g[1] < Limb - 1 THEN <<g[1] + 1, 0>>
    ELSE <<0, 0>>

(***************************************************************************)
(* Values of the model.                                                    *)
(***************************************************************************)
\* no component type (a call that names none)
None == "None"

\* Option::<usize>::None in SparseSet.sparse
NoSlot == -1

\* Option::<C>::None / Option::<&C>::None
NoValue == -1

\* no entry under a TypeId in Registry.components; an entry is <<the SparseSet>>
NoStore == <<>>

Store(ss) == <<ss>>

ComponentTypes == {"Position", "Velocity"}

Values == 0 .. MaxVal

\* the generations the model's handles range over: the low ones and the two highest
GenDomain == {U32(n) : n \in 0 .. MaxGen} \cup {<<Limb - 1, Limb - 2>>, U32Max}

\* Entity::new(id, generation)
Entity(id, generation) == [id |-> id, gen |-> generation]

\* the handles Entity::new is called with: every index of the table and one past it,
\* every generation an index can have from a fresh registry
Handles == {Entity(i, U32(n)) : i \in 0 .. MaxEntities, n \in 1 .. MaxGen}

NoEntity == Entity(0 - 1, U32(0))

\* the record of a call: the operation, the entity passed to it (for create_entity, the
\* entity returned), the value returned (remove), the result, for destroy_entity the
\* component types whose store gave up a row, for SparseSet::remove the dense slot
\* the removed element was in, and for spawn the bundle passed
Call(op, e, res) ==
    [op |-> op, e |-> e, v |-> NoValue, res |-> res, purged |-> {}, slot |-> NoSlot,
     bundle |-> <<>>]

(***************************************************************************)
(* SparseSet<C>                                                            *)
(***************************************************************************)
\* SparseSet::new
SparseSetNew == [dense |-> <<>>, entities |-> <<>>, sparse |-> <<>>]

\* Vec::resize(n, None) on a vector shorter than n
Resize(s, n) == s \o [k \in 1 .. (n - Len(s)) |-> NoSlot]

InsertNoUpdate(ss, entity, component) ==
    LET id == entity.id
        sp == IF id >= Len(ss.sparse) THEN Resize(ss.sparse, id + 1) ELSE ss.sparse
    IN  [dense    |-> Append(ss.dense, component),
         entities |-> Append(ss.entities, entity),
         sparse   |-> [sp EXCEPT ![id + 1] = Len(ss.dense)]]

InsertKeepOld(ss, entity, component) ==
    LET id == entity.id
        sp == IF id >= Len(ss.sparse) THEN Resize(ss.sparse, id + 1) ELSE ss.sparse
    IN  IF sp[id + 1] # NoSlot
        THEN [dense |-> ss.dense, entities |-> ss.entities, sparse |-> sp]
        ELSE [dense    |-> Append(ss.dense, component),
              entities |-> Append(ss.entities, entity),
              sparse   |-> [sp EXCEPT ![id + 1] = Len(ss.dense)]]

\* SparseSet::insert
SparseSetInsert(ss, entity, component) ==
    LET id == entity.id
        sp == IF id >= Len(ss.sparse) THEN Resize(ss.sparse, id + 1) ELSE ss.sparse
    IN  IF sp[id + 1] # NoSlot
        THEN LET dense_index == sp[id + 1]
             IN  [dense    |-> IF dense_index < Len(ss.dense)
                               THEN [ss.dense EXCEPT ![dense_index + 1] = component]
                               ELSE ss.dense,
                  entities |-> [ss.entities EXCEPT ![dense_index + 1] = entity],
                  sparse   |-> sp]
        ELSE [dense    |-> Append(ss.dense, component),
              entities |-> Append(ss.entities, entity),
              sparse   |-> [sp EXCEPT ![id + 1] = Len(ss.dense)]]

Pop(s) == SubSeq(s, 1, Len(s) - 1)

RemoveNoRepoint(ss, id) ==
    IF id >= Len(ss.sparse) \/ ss.sparse[id + 1] = NoSlot
    THEN [set |-> ss, removed |-> NoValue]
    ELSE LET dense_index == ss.sparse[id + 1]
             last_index  == Len(ss.dense) - 1
             last_item   == ss.dense[Len(ss.dense)]
             last_entity == ss.entities[Len(ss.entities)]
             dense1      == Pop(ss.dense)
             entities1   == Pop(ss.entities)
         IN  IF dense_index # last_index
             THEN [set |-> [dense    |-> [dense1 EXCEPT ![dense_index + 1] = last_item],
                            entities |-> [entities1 EXCEPT ![dense_index + 1] = last_entity],
                            sparse   |-> [ss.sparse EXCEPT ![id + 1] = NoSlot]],
                   removed |-> ss.dense[dense_index + 1]]
             ELSE [set |-> [dense    |-> dense1,
                            entities |-> entities1,
                            sparse   |-> [ss.sparse EXCEPT ![id + 1] = NoSlot]],
                   removed |-> last_item]

RemoveNoSwap(ss, id) ==
    IF id >= Len(ss.sparse) \/ ss.sparse[id + 1] = NoSlot
    THEN [set |-> ss, removed |-> NoValue]
    ELSE LET dense_index == ss.sparse[id + 1]
             last_index  == Len(ss.dense) - 1
             last_entity == ss.entities[Len(ss.entities)]
             dense1      == Pop(ss.dense)
             entities1   == Pop(ss.entities)
         IN  IF dense_index # last_index
             THEN [set |-> [dense    |-> dense1,
                            entities |-> [entities1 EXCEPT ![dense_index + 1] = last_entity],
                            sparse   |-> [[ss.sparse EXCEPT ![last_entity.id + 1] = dense_index]
                                             EXCEPT ![id + 1] = NoSlot]],
                   removed |-> ss.dense[dense_index + 1]]
             ELSE [set |-> [dense    |-> dense1,
                            entities |-> entities1,
                            sparse   |-> [ss.sparse EXCEPT ![id + 1] = NoSlot]],
                   removed |-> ss.dense[Len(ss.dense)]]

RemoveReturnsNothing(ss, id) ==
    IF id >= Len(ss.sparse) \/ ss.sparse[id + 1] = NoSlot
    THEN [set |-> ss, removed |-> NoValue]
    ELSE [set |-> RemoveNoSwap(ss, id).set, removed |-> NoValue]

\* SparseSet::remove: the set afterwards and the Option<C> returned
SparseSetRemove(ss, id) ==
    IF id >= Len(ss.sparse) \/ ss.sparse[id + 1] = NoSlot
    THEN [set |-> ss, removed |-> NoValue]
    ELSE LET dense_index == ss.sparse[id + 1]
             last_index  == Len(ss.dense) - 1
             last_item   == ss.dense[Len(ss.dense)]
             last_entity == ss.entities[Len(ss.entities)]
             dense1      == Pop(ss.dense)
             entities1   == Pop(ss.entities)
         IN  IF dense_index # last_index
             THEN [set |-> [dense    |-> [dense1 EXCEPT ![dense_index + 1] = last_item],
                            entities |-> [entities1 EXCEPT ![dense_index + 1] = last_entity],
                            sparse   |-> [[ss.sparse EXCEPT ![last_entity.id + 1] = dense_index]
                                             EXCEPT ![id + 1] = NoSlot]],
                   removed |-> ss.dense[dense_index + 1]]
             ELSE [set |-> [dense    |-> dense1,
                            entities |-> entities1,
                            sparse   |-> [ss.sparse EXCEPT ![id + 1] = NoSlot]],
                   removed |-> last_item]

\* SparseSet::get / get_mut: the dense slot the id resolves to, or None
SparseSetSlot(ss, id) ==
    IF id >= Len(ss.sparse) THEN NoSlot
    ELSE IF ss.sparse[id + 1] = NoSlot THEN NoSlot
    ELSE IF ss.sparse[id + 1] < Len(ss.dense) THEN ss.sparse[id + 1]
    ELSE NoSlot

\* SparseSet::get: the value, or None
SparseSetGet(ss, id) ==
    IF SparseSetSlot(ss, id) = NoSlot THEN NoValue ELSE ss.dense[SparseSetSlot(ss, id) + 1]

\* SparseSet::len
SparseSetLen(ss) == Len(ss.dense)

(***************************************************************************)
(* EntityManager                                                           *)
(***************************************************************************)
\* EntityManager::is_valid
IsValidAt(gens, entity) ==
    entity.id < Len(gens) /\ gens[entity.id + 1] = entity.gen

is_valid(entity) == IsValidAt(generations, entity)

CreatedEntityFirstGen ==
    IF free_list # <<>>
    THEN Entity(free_list[Len(free_list)], U32(1))
    ELSE Entity(Len(generations), U32(1))

\* EntityManager::create_entity: the entity returned
CreatedEntity ==
    IF free_list # <<>>
    THEN Entity(free_list[Len(free_list)], generations[free_list[Len(free_list)] + 1])
    ELSE Entity(Len(generations), U32(1))

\* the model's bound on create_entity: the table is not extended past MaxEntities
CanCreate == free_list # <<>> \/ Len(generations) < MaxEntities

CreateFifo ==
    /\ IF free_list # <<>>
       THEN /\ free_list' = Tail(free_list)
            /\ generations' = generations
       ELSE /\ generations' = Append(generations, U32(1))
            /\ free_list' = free_list
    /\ alive' = alive \cup {CreatedEntity}
    /\ retired' = {r \in retired : r.id # CreatedEntity.id}

\* EntityManager::create_entity: its effect on the manager
EntityManagerCreate ==
    /\ IF free_list # <<>>
       THEN /\ free_list' = Pop(free_list)
            /\ generations' = generations
       ELSE /\ generations' = Append(generations, U32(1))
            /\ free_list' = free_list
    /\ alive' = alive \cup {CreatedEntity}
    /\ retired' = {r \in retired : r.id # CreatedEntity.id}

\* `self.generations[index] += 1` overflows
Overflows(entity) == generations[entity.id + 1] = U32Max

\* the model's bound on destroy_entity: generations stay inside GenDomain
CanDestroy(entity) ==
    is_valid(entity) => WrappingInc(generations[entity.id + 1]) \in GenDomain

DestroyNoBump(entity) ==
    /\ generations' = generations
    /\ free_list' = Append(free_list, entity.id)
    /\ alive' = alive \ {entity}
    /\ retired' = retired \cup {entity}

\* EntityManager::destroy_entity on a valid entity, the increment not panicking
EntityManagerDestroy(entity) ==
    /\ generations' = [generations EXCEPT ![entity.id + 1] = WrappingInc(@)]
    /\ free_list' = Append(free_list, entity.id)
    /\ alive' = alive \ {entity}
    /\ retired' = retired \cup {entity}

(***************************************************************************)
(* Registry: entities and components                                       *)
(***************************************************************************)
\* Registry::get_component / get_component_mut: the value, or None
get_component(c, entity) ==
    IF ~is_valid(entity) THEN NoValue
    ELSE IF components[c] = NoStore THEN NoValue
    ELSE SparseSetGet(components[c][1], entity.id)

\* a call on the registry can be made: no panic has unwound, no QueryIter holds the
\* `&mut Registry`, and run_systems is not in its loop
Callable == ~panicked /\ ~qiter.active /\ ~run.active

\* Registry::create_entity
CreateEntity ==
    /\ Callable
    /\ CanCreate
    /\ EntityManagerCreate
    /\ last' = Call("create_entity", CreatedEntity, "Ok")
    /\ UNCHANGED <<components, panicked, otherVars>>

PurgeNothing(id) == components

PurgeAll(id) ==
    [c \in ComponentTypes |->
        IF components[c] = NoStore THEN NoStore ELSE Store(SparseSetNew)]

\* the loop of Registry::destroy_entity: remove_by_id on every store
PurgeStores(id) ==
    [c \in ComponentTypes |->
        IF components[c] = NoStore THEN NoStore
        ELSE Store(SparseSetRemove(components[c][1], id).set)]

\* the component types whose remove_by_id returns Some in Registry::destroy_entity
Purged(id) ==
    {c \in ComponentTypes :
        components[c] # NoStore /\ SparseSetRemove(components[c][1], id).removed # NoValue}

\* Registry::destroy_entity
DestroyEntity(entity) ==
    /\ Callable
    /\ CanDestroy(entity)
    /\ IF ~is_valid(entity)
       THEN /\ last' = Call("destroy_entity", entity, "InvalidEntity")
            /\ UNCHANGED <<emVars, components, panicked>>
       ELSE IF Overflows(entity) /\ overflow_checks
       THEN /\ panicked' = TRUE
            /\ last' = Call("destroy_entity", entity, "Panic")
            /\ UNCHANGED <<emVars, components>>
       ELSE /\ EntityManagerDestroy(entity)
            /\ components' = PurgeStores(entity.id)
            /\ last' = [Call("destroy_entity", entity, "Ok") EXCEPT !.purged = Purged(entity.id)]
            /\ UNCHANGED panicked
    /\ UNCHANGED otherVars

RegisterResets(c) ==
    /\ Callable
    /\ components' = [components EXCEPT ![c] = Store(SparseSetNew)]
    /\ last' = Call("register_component", NoEntity, "Ok")
    /\ UNCHANGED <<emVars, panicked, otherVars>>

\* Registry::register_component
RegisterComponent(c) ==
    /\ Callable
    /\ components' = IF components[c] = NoStore
                     THEN [components EXCEPT ![c] = Store(SparseSetNew)]
                     ELSE components
    /\ last' = Call("register_component", NoEntity, "Ok")
    /\ UNCHANGED <<emVars, panicked, otherVars>>

\* Registry::add_component on the stores: entry(type_id).or_insert_with(new), then insert
StoresAfterAdd(stores, entity, c, v) ==
    [stores EXCEPT ![c] =
        Store(SparseSetInsert(IF @ = NoStore THEN SparseSetNew ELSE @[1], entity, v))]

AddUnchecked(entity, c, v) ==
    /\ Callable
    /\ components' = StoresAfterAdd(components, entity, c, v)
    /\ last' = Call("add_component", entity, "Ok")
    /\ UNCHANGED <<emVars, panicked, otherVars>>

\* Registry::add_component
AddComponent(entity, c, v) ==
    /\ Callable
    /\ IF ~is_valid(entity)
       THEN /\ last' = Call("add_component", entity, "InvalidEntity")
            /\ UNCHANGED components
       ELSE /\ components' = StoresAfterAdd(components, entity, c, v)
            /\ last' = Call("add_component", entity, "Ok")
    /\ UNCHANGED <<emVars, panicked, otherVars>>

\* the bundles passed to spawn: a single component, or a tuple of components
Bundles ==
    UNION {[1 .. n -> {[c |-> c, v |-> v] : c \in ComponentTypes, v \in Values}] :
               n \in 1 .. MaxBundle}

\* ComponentBundle::add_to_entity with the generation table gens: add_component for
\* each component of the bundle in turn, `?` returning at the first error
RECURSIVE add_to_entity(_, _, _, _)
add_to_entity(stores, gens, entity, bundle) ==
    IF bundle = <<>> THEN [components |-> stores, ok |-> TRUE]
    ELSE IF ~IsValidAt(gens, entity) THEN [components |-> stores, ok |-> FALSE]
    ELSE add_to_entity(StoresAfterAdd(stores, entity, Head(bundle).c, Head(bundle).v),
                       gens, entity, Tail(bundle))

\* Registry::spawn: create_entity, then add_to_entity(..).expect(..)
Spawn(bundle) ==
    /\ Callable
    /\ CanCreate
    /\ EntityManagerCreate
    /\ LET r == add_to_entity(components, generations', CreatedEntity, bundle)
       IN  /\ components' = r.components
           /\ panicked' = ~r.ok
           /\ last' = [Call("spawn", CreatedEntity, IF r.ok THEN "Ok" ELSE "Panic")
                           EXCEPT !.bundle = bundle]
    /\ UNCHANGED otherVars

\* Registry::remove_component
RemoveComponent(entity, c) ==
    /\ Callable
    /\ IF ~is_valid(entity)
       THEN /\ last' = Call("remove_component", entity, "InvalidEntity")
            /\ UNCHANGED components
       ELSE IF components[c] = NoStore
       THEN /\ last' = Call("remove_component", entity, "ComponentNotFound")
            /\ UNCHANGED components
       ELSE LET r == SparseSetRemove(components[c][1], entity.id)
            IN  /\ components' = [components EXCEPT ![c] = Store(r.set)]
                /\ last' = IF r.removed = NoValue
                           THEN Call("remove_component", entity, "ComponentNotFound")
                           ELSE [Call("remove_component", entity, "Ok") EXCEPT !.v = r.removed]
    /\ UNCHANGED <<emVars, panicked, otherVars>>

(***************************************************************************)
(* Queries                                                                 *)
(***************************************************************************)
\* one element of a query tuple: &C (mut FALSE) or &mut C (mut TRUE)
Item(c, mut) == [c |-> c, mut |-> mut]

QueryItems == {Item(c, m) : c \in ComponentTypes, m \in BOOLEAN}

\* the query tuples of one and of two elements
QueryShapes == {<<a>> : a \in QueryItems} \cup {<<a, b>> : a, b \in QueryItems}

\* no QueryIter is held
NoQuery == [active |-> FALSE, shape |-> <<>>, entity_index |-> 0]

\* QueryItem::get_storage finds a store for every element of the tuple
AllStorages(shape) == \A k \in 1 .. Len(shape) : components[shape[k].c] # NoStore

\* the entity list of the k-th element's store
EntitiesOf(shape, k) == components[shape[k].c][1].entities

FirstListed(shape) == EntitiesOf(shape, 1)

\* the smallest_slice loop of next(): the first-listed of the shortest entity lists
Smallest(shape) ==
    LET k == CHOOSE k \in 1 .. Len(shape) :
                 \A m \in 1 .. Len(shape) :
                     \/ Len(EntitiesOf(shape, k)) < Len(EntitiesOf(shape, m))
                     \/ (Len(EntitiesOf(shape, k)) = Len(EntitiesOf(shape, m)) /\ k <= m)
    IN  EntitiesOf(shape, k)

ProbeAny(shape, id) ==
    \E k \in 1 .. Len(shape) : SparseSetSlot(components[shape[k].c][1], id) # NoSlot

ProbeFirstOnly(shape, id) ==
    SparseSetSlot(components[shape[1].c][1], id) # NoSlot

\* `if let ($(Some($name),)+) = ($($name::get_from_storage($name, id),)+)`:
\* every element's store resolves the id
Probe(shape, id) ==
    \A k \in 1 .. Len(shape) : SparseSetSlot(components[shape[k].c][1], id) # NoSlot

\* the row next() returns for an entity id: one reference per element of the tuple,
\* into dense slot `slot` of the store of `c`
Row(shape, id) ==
    [id   |-> id,
     refs |-> [k \in 1 .. Len(shape) |->
                 [c    |-> shape[k].c,
                  mut  |-> shape[k].mut,
                  slot |-> SparseSetSlot(components[shape[k].c][1], id),
                  v    |-> SparseSetGet(components[shape[k].c][1], id)]]]

ScanRestart(shape, entities_to_iterate, entity_index) ==
    LET start == IF entity_index >= Len(entities_to_iterate) THEN 0 ELSE entity_index
        M == {i \in start + 1 .. Len(entities_to_iterate) :
                 Probe(shape, entities_to_iterate[i].id)}
    IN  IF M = {}
        THEN [entity_index |-> Len(entities_to_iterate), found |-> FALSE]
        ELSE [entity_index |-> CHOOSE i \in M : \A j \in M : i <= j, found |-> TRUE]

ScanLastMatch(shape, entities_to_iterate, entity_index) ==
    LET M == {i \in entity_index + 1 .. Len(entities_to_iterate) :
                 Probe(shape, entities_to_iterate[i].id)}
    IN  IF M = {}
        THEN [entity_index |-> IF entity_index < Len(entities_to_iterate)
                               THEN Len(entities_to_iterate) ELSE entity_index,
              found |-> FALSE]
        ELSE [entity_index |-> CHOOSE i \in M : \A j \in M : j <= i, found |-> TRUE]

\* the while loop of next() from entity_index: the entity_index it leaves and
\* whether it returns a row for the entity at entity_index - 1
RECURSIVE Scan(_, _, _)
Scan(shape, entities_to_iterate, entity_index) ==
    IF entity_index >= Len(entities_to_iterate)
    THEN [entity_index |-> entity_index, found |-> FALSE]
    ELSE IF Probe(shape, entities_to_iterate[entity_index + 1].id)
    THEN [entity_index |-> entity_index + 1, found |-> TRUE]
    ELSE Scan(shape, entities_to_iterate, entity_index + 1)

\* Registry::query::<Q>() / QueryParam::iter
Query(shape) ==
    /\ Callable
    /\ qiter' = [active |-> TRUE, shape |-> shape, entity_index |-> 0]
    /\ rows' = <<>>
    /\ last' = Call("query", NoEntity, "Ok")
    /\ UNCHANGED <<emVars, components, set, overflow_checks, panicked, sysVars>>

\* Iterator::next for QueryIter
QueryNext ==
    /\ ~panicked
    /\ qiter.active
    /\ IF ~AllStorages(qiter.shape)
       THEN /\ last' = Call("next", NoEntity, "None")
            /\ UNCHANGED <<qiter, rows>>
       ELSE LET driver == Smallest(qiter.shape)
                r == Scan(qiter.shape, driver, qiter.entity_index)
            IN  /\ qiter' = [qiter EXCEPT !.entity_index = r.entity_index]
                /\ IF r.found
                   THEN /\ rows' = Append(rows, Row(qiter.shape, driver[r.entity_index].id))
                        /\ last' = Call("next", driver[r.entity_index], "Some")
                   ELSE /\ rows' = rows
                        /\ last' = Call("next", NoEntity, "None")
    /\ UNCHANGED <<emVars, components, set, overflow_checks, panicked, sysVars>>

\* the QueryIter is dropped: the borrow of the registry ends
QueryDrop ==
    /\ ~panicked
    /\ qiter.active
    /\ qiter' = NoQuery
    /\ rows' = <<>>
    /\ last' = Call("drop", NoEntity, "Ok")
    /\ UNCHANGED <<emVars, components, set, overflow_checks, panicked, sysVars>>

(***************************************************************************)
(* Resources                                                               *)
(***************************************************************************)
\* the resource types of the tests of system/mod.rs: Time { delta } and Counter { value }
ResourceTypes == {"Time", "Counter"}

\* the resource types that implement Default
DefaultTypes == {"Counter"}

\* Counter::default().value
DefaultValue == 0

\* ResourceStorage holds no value of a type / holds the value v
NoResource == <<>>
Resource(v) == <<v>>

\* Registry::has_resource
has_resource(r) == resources[r] # NoResource

\* Registry::get_resource: the value, or None
get_resource(r) == IF resources[r] = NoResource THEN NoValue ELSE resources[r][1]

\* ResourceStorage::len: the number of resource types stored
ResourceStorageLen(res) == Cardinality({r \in ResourceTypes : res[r] # NoResource})

InsertKeepsOld(res, r, v) == [res EXCEPT ![r] = Append(@, v)]

\* ResourceStorage::insert: HashMap::insert under the TypeId of R
ResourceStorageInsert(res, r, v) == [res EXCEPT ![r] = Resource(v)]

\* Registry::insert_resource; the history records whether a value was replaced
InsertResource(r, v) ==
    /\ Callable
    /\ resources' = ResourceStorageInsert(resources, r, v)
    /\ last' = Call("insert_resource", NoEntity,
                    IF has_resource(r) THEN "Replaced" ELSE "Inserted")
    /\ UNCHANGED <<emVars, components, panicked, set, overflow_checks, qiter, rows,
                   systems, run, invoked>>

RemoveResourcePeek(r) ==
    /\ Callable
    /\ resources' = resources
    /\ last' = IF has_resource(r)
               THEN [Call("remove_resource", NoEntity, "Some") EXCEPT !.v = resources[r][1]]
               ELSE Call("remove_resource", NoEntity, "None")
    /\ UNCHANGED <<emVars, components, panicked, set, overflow_checks, qiter, rows,
                   systems, run, invoked>>

\* Registry::remove_resource
RemoveResource(r) ==
    /\ Callable
    /\ resources' = [resources EXCEPT ![r] = NoResource]
    /\ last' = IF has_resource(r)
               THEN [Call("remove_resource", NoEntity, "Some") EXCEPT !.v = resources[r][1]]
               ELSE Call("remove_resource", NoEntity, "None")
    /\ UNCHANGED <<emVars, components, panicked, set, overflow_checks, qiter, rows,
                   systems, run, invoked>>

InitOverwrites(r) ==
    /\ Callable
    /\ resources' = [resources EXCEPT ![r] = Resource(DefaultValue)]
    /\ last' = Call("init_resource", NoEntity, "Ok")
    /\ UNCHANGED <<emVars, components, panicked, set, overflow_checks, qiter, rows,
                   systems, run, invoked>>

\* Registry::init_resource
InitResource(r) ==
    /\ Callable
    /\ resources' = IF has_resource(r) THEN resources
                    ELSE [resources EXCEPT ![r] = Resource(DefaultValue)]
    /\ last' = Call("init_resource", NoEntity, "Ok")
    /\ UNCHANGED <<emVars, components, panicked, set, overflow_checks, qiter, rows,
                   systems, run, invoked>>

(***************************************************************************)
(* Systems                                                                 *)
(***************************************************************************)
\* a system parameter: Query<shape>, or Res / ResMut / OptionalRes / OptionalResMut of r
Param(kind, r, shape) == [kind |-> kind, r |-> r, shape |-> shape]

\* what optional_resource_system writes into the counter
PresentMark == 10
AbsentMark == 0 - 10

\* movement_system, time_reader_system and optional_resource_system are the systems
\* of the tests of system/mod.rs; aliased_counter_system is
\*     fn aliased_counter_system(_: Res<Counter>, _: ResMut<Counter>) {}
\* which impl_system accepts like any other function of SystemParams; so is
\*     fn optional_pair_system(_: OptionalRes<Time>, _: OptionalResMut<Counter>) {}
\* a system of optional parameters only, like stats_system of examples/resources.rs
SystemNames ==
    {"movement_system", "time_reader_system", "optional_resource_system",
     "aliased_counter_system", "optional_pair_system"}

Params(s) ==
    CASE s = "movement_system" ->
           <<Param("Query", "", <<Item("Position", TRUE), Item("Velocity", FALSE)>>)>>
      [] s = "time_reader_system" ->
           <<Param("Res", "Time", <<>>), Param("ResMut", "Counter", <<>>)>>
      [] s = "optional_resource_system" ->
           <<Param("OptionalRes", "Time", <<>>), Param("ResMut", "Counter", <<>>)>>
      [] s = "aliased_counter_system" ->
           <<Param("Res", "Counter", <<>>), Param("ResMut", "Counter", <<>>)>>
      [] s = "optional_pair_system" ->
           <<Param("OptionalRes", "Time", <<>>), Param("OptionalResMut", "Counter", <<>>)>>

\* Res and ResMut `.expect(..)` the resource
Mandatory(p) == p.kind \in {"Res", "ResMut"}

\* the parameters whose from_registry panics: mandatory, and the resource is not stored
Missing(s) == {k \in 1 .. Len(Params(s)) : Mandatory(Params(s)[k]) /\ ~has_resource(Params(s)[k].r)}

Min(S) == CHOOSE k \in S : \A m \in S : k <= m

RefsOfAlwaysPresent(s, k) ==
    LET p == Params(s)[k]
    IN  IF p.kind = "Query" THEN {}
        ELSE {[param |-> k, target |-> <<"resource", p.r>>,
               mut |-> p.kind \in {"ResMut", "OptionalResMut"}]}

\* the references the k-th parameter holds once from_registry has returned: a Query
\* reaches every existing store of its tuple, a resource parameter the stored resource
RefsOf(s, k) ==
    LET p == Params(s)[k]
    IN  IF p.kind = "Query"
        THEN {[param |-> k, target |-> <<"component", p.shape[i].c>>, mut |-> p.shape[i].mut] :
                  i \in {i \in 1 .. Len(p.shape) : components[p.shape[i].c] # NoStore}}
        ELSE IF has_resource(p.r)
        THEN {[param |-> k, target |-> <<"resource", p.r>>,
               mut |-> p.kind \in {"ResMut", "OptionalResMut"}]}
        ELSE {}

\* `$(let $param = $param::from_registry(registry_ptr);)*`: the references held by the
\* first n parameters
Assembled(s, n) == UNION {RefsOf(s, k) : k \in 1 .. n}

FirstParamResource(s) == Params(s)[1].r

\* the resource type the panic message names: `.expect(&format!("Resource {} not found
\* ..", type_name::<R>()))` of the first parameter whose from_registry fails
NamedInPanic(s) == Params(s)[Min(Missing(s))].r

\* run_systems is not executing; while it is, `start` keeps the resources and the
\* component stores the call began with (history)
NotRunning ==
    [active |-> FALSE, index |-> 0,
     start |-> [resources  |-> [r \in ResourceTypes |-> NoResource],
                components |-> [c \in ComponentTypes |-> NoStore]]]

ResourcesAtStart == run.start.resources

\* the resources the parameters of a system read: those of the registry at the moment
\* of the invocation, through the raw pointer
ResourcesSeen == resources

\* `for row in query`: the rows next() returns until it returns None
RECURSIVE Drain(_, _, _)
Drain(shape, entities_to_iterate, entity_index) ==
    LET r == Scan(shape, entities_to_iterate, entity_index)
    IN  IF r.found
        THEN <<Row(shape, entities_to_iterate[r.entity_index].id)>>
                 \o Drain(shape, entities_to_iterate, r.entity_index)
        ELSE <<>>

AllRows(shape) == IF AllStorages(shape) THEN Drain(shape, Smallest(shape), 0) ELSE <<>>

IntegrateNothing(dense, rs) == dense

\* `pos.x += vel.dx` for each row in turn
RECURSIVE Integrate(_, _)
Integrate(dense, rs) ==
    IF rs = <<>> THEN dense
    ELSE Integrate([dense EXCEPT ![Head(rs).refs[1].slot + 1] = @ + Head(rs).refs[2].v],
                   Tail(rs))

\* the component stores after the body of system s has run
ComponentsAfter(s) ==
    LET rs == AllRows(Params(s)[1].shape)
    IN  IF s = "movement_system" /\ rs # <<>>
        THEN [components EXCEPT !["Position"] =
                 Store([components["Position"][1] EXCEPT !.dense = Integrate(@, rs)])]
        ELSE components

\* the resources after the body of system s has run, all its parameters being present
ResourcesAfter(s) ==
    CASE s = "time_reader_system" ->
           IF ResourcesSeen["Time"][1] > 0
           THEN [resources EXCEPT !["Counter"] = Resource(ResourcesSeen["Counter"][1] + 1)]
           ELSE resources
      [] s = "optional_resource_system" ->
           IF ResourcesSeen["Time"] # NoResource
           THEN [resources EXCEPT !["Counter"] = Resource(PresentMark)]
           ELSE [resources EXCEPT !["Counter"] = Resource(AbsentMark)]
      [] OTHER -> resources

\* the counter values within the bound: at most MaxTicks above an inserted value, the
\* default or a mark of optional_resource_system
CounterValues ==
    {b + t : b \in Values \cup {DefaultValue, PresentMark, AbsentMark}, t \in 0 .. MaxTicks}

\* the values the systems have produced stay within the bounds
WithinBounds(res, comps) ==
    /\ res["Counter"] # NoResource => res["Counter"][1] \in CounterValues
    /\ comps["Position"] # NoStore =>
          \A j \in 1 .. Len(comps["Position"][1].dense) : comps["Position"][1].dense[j] <= MaxPos

\* Registry::add_system
AddSystem(s) ==
    /\ Callable
    /\ Len(systems) < MaxSystems
    /\ systems' = Append(systems, s)
    /\ last' = Call("add_system", NoEntity, "Ok")
    /\ UNCHANGED <<emVars, components, panicked, set, overflow_checks, qiter, rows,
                   resources, run, invoked>>

\* Registry::system_count
system_count == Len(systems)

ClearNothing ==
    /\ Callable
    /\ systems' = systems
    /\ last' = Call("clear_systems", NoEntity, "Ok")
    /\ UNCHANGED <<emVars, components, panicked, set, overflow_checks, qiter, rows,
                   resources, run, invoked>>

\* Registry::clear_systems
ClearSystems ==
    /\ Callable
    /\ systems' = <<>>
    /\ last' = Call("clear_systems", NoEntity, "Ok")
    /\ UNCHANGED <<emVars, components, panicked, set, overflow_checks, qiter, rows,
                   resources, run, invoked>>

\* Registry::run_systems is called: the loop starts at the first system
RunSystems ==
    /\ Callable
    /\ run' = [active |-> TRUE, index |-> 0,
               start |-> [resources |-> resources, components |-> components]]
    /\ invoked' = <<>>
    /\ last' = Call("run_systems", NoEntity, "Running")
    /\ UNCHANGED <<emVars, components, panicked, set, overflow_checks, qiter, rows,
                   resources, systems>>

SystemAtReversed(i) == systems[Len(systems) - i]

\* `for system in &mut self.systems`: the system of the i-th iteration, i from 0
SystemAt(i) == systems[i + 1]

RunSystemRollsBack ==
    /\ ~panicked
    /\ run.active
    /\ run.index < Len(systems)
    /\ LET s == SystemAt(run.index)
       IN  IF Missing(s) # {}
           THEN /\ panicked' = TRUE
                /\ invoked' = Append(invoked,
                                     [sys |-> s, called |-> FALSE,
                                      missing |-> NamedInPanic(s),
                                      refs |-> Assembled(s, Min(Missing(s)) - 1)])
                /\ last' = Call("run_systems", NoEntity, "Panic")
                /\ components' = run.start.components
                /\ resources' = run.start.resources
                /\ UNCHANGED run
           ELSE /\ WithinBounds(ResourcesAfter(s), ComponentsAfter(s))
                /\ invoked' = Append(invoked,
                                     [sys |-> s, called |-> TRUE, missing |-> "",
                                      refs |-> Assembled(s, Len(Params(s)))])
                /\ components' = ComponentsAfter(s)
                /\ resources' = ResourcesAfter(s)
                /\ run' = [run EXCEPT !.index = @ + 1]
                /\ last' = Call("system", NoEntity, "Ok")
                /\ UNCHANGED panicked
    /\ UNCHANGED <<emVars, set, overflow_checks, qiter, rows, systems>>

\* one iteration of the loop of run_systems: System::run of the next system.  The
\* parameters are assembled in order; a missing mandatory resource panics before the
\* function is called, otherwise the function runs to completion
RunSystem ==
    /\ ~panicked
    /\ run.active
    /\ run.index < Len(systems)
    /\ LET s == SystemAt(run.index)
       IN  IF Missing(s) # {}
           THEN /\ panicked' = TRUE
                /\ invoked' = Append(invoked,
                                     [sys |-> s, called |-> FALSE,
                                      missing |-> NamedInPanic(s),
                                      refs |-> Assembled(s, Min(Missing(s)) - 1)])
                /\ last' = Call("run_systems", NoEntity, "Panic")
                /\ UNCHANGED <<components, resources, run>>
           ELSE /\ WithinBounds(ResourcesAfter(s), ComponentsAfter(s))
                /\ invoked' = Append(invoked,
                                     [sys |-> s, called |-> TRUE, missing |-> "",
                                      refs |-> Assembled(s, Len(Params(s)))])
                /\ components' = ComponentsAfter(s)
                /\ resources' = ResourcesAfter(s)
                /\ run' = [run EXCEPT !.index = @ + 1]
                /\ last' = Call("system", NoEntity, "Ok")
                /\ UNCHANGED panicked
    /\ UNCHANGED <<emVars, set, overflow_checks, qiter, rows, systems>>

RunSystemsReturnDrains ==
    /\ ~panicked
    /\ run.active
    /\ run.index = Len(systems)
    /\ run' = NotRunning
    /\ systems' = <<>>
    /\ last' = Call("run_systems", NoEntity, "Ok")
    /\ UNCHANGED <<emVars, components, panicked, set, overflow_checks, qiter, rows,
                   resources, invoked>>

\* the loop of run_systems has passed the last system: run_systems returns
RunSystemsReturn ==
    /\ ~panicked
    /\ run.active
    /\ run.index = Len(systems)
    /\ run' = NotRunning
    /\ last' = Call("run_systems", NoEntity, "Ok")
    /\ UNCHANGED <<emVars, components, panicked, set, overflow_checks, qiter, rows,
                   resources, systems, invoked>>

(***************************************************************************)
(* Specifications                                                          *)
(***************************************************************************)
\* Registry::new, release profile
Init ==
    /\ generations = <<>>
    /\ free_list = <<>>
    /\ components = [c \in ComponentTypes |-> NoStore]
    /\ set = SparseSetNew
    /\ overflow_checks = FALSE
    /\ panicked = FALSE
    /\ alive = {}
    /\ retired = {}
    /\ qiter = NoQuery
    /\ rows = <<>>
    /\ resources = [r \in ResourceTypes |-> NoResource]
    /\ systems = <<>>
    /\ run = NotRunning
    /\ invoked = <<>>
    /\ last = Call("new", NoEntity, "Ok")

Next ==
    \/ CreateEntity
    \/ \E e \in Handles : DestroyEntity(e)
    \/ \E c \in ComponentTypes : RegisterComponent(c)
    \/ \E e \in Handles, c \in ComponentTypes, v \in Values : AddComponent(e, c, v)
    \/ \E e \in Handles, c \in ComponentTypes : RemoveComponent(e, c)

Spec == Init /\ [][Next]_vars

\* the same registry, with spawn
NextSpawn ==
    \/ Next
    \/ \E bundle \in Bundles : Spawn(bundle)

SpecSpawn == Init /\ [][NextSpawn]_vars

(***************************************************************************)
(* The entity manager alone, in both build profiles, from a fresh manager  *)
(* and from a manager whose index 0 has been created and destroyed         *)
(* 2^32 - 3 times (generation 2^32 - 2, index 0 on the free list).  The    *)
(* caller passes destroy_entity only handles create_entity returned: live  *)
(* ones, and destroyed ones whose index has not been handed out again.     *)
(***************************************************************************)
NearMax == <<Limb - 1, Limb - 2>>

InitEM ==
    /\ \/ /\ generations = <<>>
          /\ free_list = <<>>
          /\ retired = {}
       \/ /\ generations = <<NearMax>>
          /\ free_list = <<0>>
          /\ retired = {Entity(0, <<Limb - 1, Limb - 3>>)}
    /\ alive = {}
    /\ components = [c \in ComponentTypes |-> NoStore]
    /\ set = SparseSetNew
    /\ overflow_checks \in BOOLEAN
    /\ panicked = FALSE
    /\ qiter = NoQuery
    /\ rows = <<>>
    /\ resources = [r \in ResourceTypes |-> NoResource]
    /\ systems = <<>>
    /\ run = NotRunning
    /\ invoked = <<>>
    /\ last = Call("new", NoEntity, "Ok")

NextEM ==
    \/ CreateEntity
    \/ \E e \in alive \cup retired : DestroyEntity(e)

SpecEM == InitEM /\ [][NextEM]_vars

\* the same manager, the caller passing destroy_entity any Entity::new(id, generation)
ForgedHandles == {Entity(i, g) : i \in 0 .. MaxEntities, g \in GenDomain}

NextForge ==
    \/ CreateEntity
    \/ \E e \in ForgedHandles : DestroyEntity(e)

SpecForge == InitEM /\ [][NextForge]_vars

(***************************************************************************)
(* The registry with queries.  The caller passes the handles create_entity *)
(* returned and has not destroyed; while it holds a QueryIter the registry *)
(* is mutably borrowed, so no other call can be made.                      *)
(***************************************************************************)
NextQ ==
    \/ CreateEntity
    \/ \E e \in alive : DestroyEntity(e)
    \/ \E c \in ComponentTypes : RegisterComponent(c)
    \/ \E e \in alive, c \in ComponentTypes, v \in Values : AddComponent(e, c, v)
    \/ \E e \in alive, c \in ComponentTypes : RemoveComponent(e, c)
    \/ \E shape \in QueryShapes : Query(shape)
    \/ QueryNext
    \/ QueryDrop

SpecQ == Init /\ [][NextQ]_vars

(***************************************************************************)
(* The registry with resources and systems.                                *)
(***************************************************************************)
NextSys ==
    \/ \E r \in ResourceTypes, v \in Values : InsertResource(r, v)
    \/ \E r \in ResourceTypes : RemoveResource(r)
    \/ \E r \in DefaultTypes : InitResource(r)
    \/ \E s \in SystemNames : AddSystem(s)
    \/ ClearSystems
    \/ RunSystems
    \/ RunSystem
    \/ RunSystemsReturn

SpecSys == Init /\ [][NextSys]_vars

(***************************************************************************)
(* The registry with entities spawned from bundles, resources and the       *)
(* systems of the tests of system/mod.rs.                                  *)
(***************************************************************************)
TestSystems == {"movement_system", "time_reader_system", "optional_resource_system"}

NextRun ==
    \/ \E bundle \in Bundles : Spawn(bundle)
    \/ \E r \in ResourceTypes, v \in Values : InsertResource(r, v)
    \/ \E r \in DefaultTypes : InitResource(r)
    \/ \E s \in TestSystems : AddSystem(s)
    \/ RunSystems
    \/ RunSystem
    \/ RunSystemsReturn

SpecRun == Init /\ [][NextRun]_vars

(***************************************************************************)
(* Queries over a registry of three entities, the state after three        *)
(* create_entity calls.  A component's value is its entity's index, as in  *)
(* test_query_iterates_over_smallest_set; the queries are the shared ones  *)
(* of one and of two different component types.                            *)
(***************************************************************************)
OrderEntities == 3

InitOrder ==
    /\ generations = [i \in 1 .. OrderEntities |-> U32(1)]
    /\ free_list = <<>>
    /\ alive = {Entity(i, U32(1)) : i \in 0 .. OrderEntities - 1}
    /\ retired = {}
    /\ components = [c \in ComponentTypes |-> NoStore]
    /\ set = SparseSetNew
    /\ overflow_checks = FALSE
    /\ panicked = FALSE
    /\ qiter = NoQuery
    /\ rows = <<>>
    /\ resources = [r \in ResourceTypes |-> NoResource]
    /\ systems = <<>>
    /\ run = NotRunning
    /\ invoked = <<>>
    /\ last = Call("create_entity", Entity(OrderEntities - 1, U32(1)), "Ok")

OrderShapes ==
    {<<Item(c, FALSE)>> : c \in ComponentTypes}
        \cup {<<Item(c, FALSE), Item(d, FALSE)>> :
                  <<c, d>> \in {p \in ComponentTypes \X ComponentTypes : p[1] # p[2]}}

NextOrder ==
    \/ \E e \in alive, c \in ComponentTypes : AddComponent(e, c, e.id)
    \/ \E e \in alive, c \in ComponentTypes : RemoveComponent(e, c)
    \/ \E shape \in OrderShapes : Query(shape)
    \/ QueryNext
    \/ QueryDrop

SpecOrder == InitOrder /\ [][NextOrder]_vars

\* the holder of a QueryIter keeps calling next(), as `for row in query` does, until
\* next() returns None or the iterator is dropped
SpecOrderLive == SpecOrder /\ WF_vars(QueryNext)

(***************************************************************************)
(* A registry holding entities spawned from bundles, a Time resource and   *)
(* movement_system, on which destroy_entity is called with any handle.     *)
(***************************************************************************)
NextDestroy ==
    \/ \E bundle \in Bundles : Spawn(bundle)
    \/ \E e \in Handles : DestroyEntity(e)
    \/ \E v \in Values : InsertResource("Time", v)
    \/ AddSystem("movement_system")

SpecDestroy == Init /\ [][NextDestroy]_vars

(***************************************************************************)
(* One SparseSet driven directly, as the unit tests of sparse_set.rs do:   *)
(* insert takes any Entity::new(id, generation), remove any id.            *)
(***************************************************************************)
\* ss.insert(entity, component)
SetInsert(entity, v) ==
    /\ set' = SparseSetInsert(set, entity, v)
    /\ last' = Call("insert", entity, "Ok")
    /\ UNCHANGED <<emVars, components, overflow_checks, panicked, qiter, rows, sysVars>>

\* ss.remove(id)
SetRemove(id) ==
    /\ set' = SparseSetRemove(set, id).set
    /\ last' = IF SparseSetRemove(set, id).removed = NoValue
               THEN Call("remove", Entity(id, U32(0)), "None")
               ELSE [Call("remove", Entity(id, U32(0)), "Some")
                        EXCEPT !.v = SparseSetRemove(set, id).removed,
                               !.slot = set.sparse[id + 1]]
    /\ UNCHANGED <<emVars, components, overflow_checks, panicked, qiter, rows, sysVars>>

NextSet ==
    \/ \E e \in Handles, v \in Values : SetInsert(e, v)
    \/ \E id \in 0 .. MaxEntities + 1 : SetRemove(id)

SpecSet == Init /\ [][NextSet]_vars

(***************************************************************************)
(* The claims.                                                             *)
(***************************************************************************)
\* C1: after destroy_entity(e) returns Ok, is_valid(e) is false, and the next
\* create_entity that hands out e's index returns a generation strictly greater
\* than e's.  (SpecEM)
C1_DestroyThenReuse ==
    [][ /\ (last'.op = "destroy_entity" /\ last'.res = "Ok")
              => ~IsValidAt(generations', last'.e)
        /\ last'.op = "create_entity"
              => \A r \in retired :
                    r.id = last'.e.id => U32Lt(r.gen, last'.e.gen) ]_vars

\* C2: destroy_entity(e) returns InvalidEntity exactly when
\* `e.id < generations.len() && generations[e.id] == e.gen` is false at the call;
\* in that case the generation table, the free list and every component store are
\* unchanged; after an Ok the same handle is invalid, so destroying it again fails.
C2_DestroyErrIffInvalid ==
    [][ \A e \in Handles : DestroyEntity(e) =>
          /\ (last'.res = "InvalidEntity")
                <=> ~(e.id < Len(generations) /\ generations[e.id + 1] = e.gen)
          /\ last'.res = "InvalidEntity"
                => UNCHANGED <<generations, free_list, components>>
          /\ last'.res = "Ok"
                => ~(e.id < Len(generations') /\ generations'[e.id + 1] = e.gen) ]_vars

\* a stale handle (its index is in the table, its generation is not the table's) has
\* been refused by destroy_entity while a store held a component
C2_Witness ==
    /\ last.op = "destroy_entity"
    /\ last.res = "InvalidEntity"
    /\ last.e.id < Len(generations)
    /\ \E c \in ComponentTypes : components[c] # NoStore /\ components[c][1].dense # <<>>

\* C3: a handle that is not a live entity (destroyed since create_entity returned it,
\* or never returned by create_entity) is refused with InvalidEntity by
\* destroy_entity, add_component and remove_component, and get_component is empty
\* for it.
C3_StaleOrForgedRejected ==
    [][ \A e \in Handles : e \notin alive =>
          /\ DestroyEntity(e) => last'.res = "InvalidEntity"
          /\ \A c \in ComponentTypes :
                /\ RemoveComponent(e, c) => last'.res = "InvalidEntity"
                /\ \A v \in Values : AddComponent(e, c, v) => last'.res = "InvalidEntity"
                /\ get_component(c, e) = NoValue ]_vars

\* C4: after destroy_entity(e) returns Ok, get_component(C, e) is empty for every
\* component type C, and no store holds a sparse slot or a dense row for e's index.
C4_DestroyPurgesStores ==
    (last.op = "destroy_entity" /\ last.res = "Ok") =>
        \A c \in ComponentTypes :
            /\ get_component(c, last.e) = NoValue
            /\ components[c] # NoStore =>
                  /\ last.e.id < Len(components[c][1].sparse)
                        => components[c][1].sparse[last.e.id + 1] = NoSlot
                  /\ \A j \in 1 .. Len(components[c][1].entities) :
                        components[c][1].entities[j].id # last.e.id

\* an entity that carried a component of every type has been destroyed while
\* another entity's component stayed in a store
C4_Witness ==
    /\ last.op = "destroy_entity"
    /\ last.res = "Ok"
    /\ last.purged = ComponentTypes
    /\ \E c \in ComponentTypes : components[c][1].dense # <<>>

\* C5: after any inserts and removes on one SparseSet, len() = dense.len() =
\* entities.len(), and every sparse[i] = Some(j) has j < dense.len() and
\* entities[j].id() = i.  (SpecSet)
C5_SparseSetInvariant ==
    /\ SparseSetLen(set) = Len(set.dense)
    /\ Len(set.dense) = Len(set.entities)
    /\ \A i \in 0 .. Len(set.sparse) - 1 :
          set.sparse[i + 1] # NoSlot =>
              /\ set.sparse[i + 1] < Len(set.dense)
              /\ set.entities[set.sparse[i + 1] + 1].id = i

\* an element that was not in the last dense slot has been removed and two remain
C5_Witness ==
    /\ last.op = "remove"
    /\ last.res = "Some"
    /\ last.slot = 0
    /\ Len(set.dense) = 2

\* C6: remove(id) of a present element returns its value; if it was not in the last
\* dense slot, the former last (value, entity) pair is in its slot afterwards and,
\* besides the cleared sparse[id], exactly the moved entity's sparse entry changed;
\* if it was in the last slot the dense arrays lose that slot and nothing else
\* changes; every other id resolves to the value it resolved to before.  (SpecSet)
C6_SwapRemoval ==
    [][ \A id \in 0 .. MaxEntities + 1 :
          (SetRemove(id) /\ id < Len(set.sparse) /\ set.sparse[id + 1] # NoSlot) =>
            LET j == set.sparse[id + 1]
                n == Len(set.dense)
                moved == set.entities[n].id
            IN  /\ last'.res = "Some"
                /\ last'.v = set.dense[j + 1]
                /\ IF j # n - 1
                   THEN /\ set'.dense = [Pop(set.dense) EXCEPT ![j + 1] = set.dense[n]]
                        /\ set'.entities = [Pop(set.entities) EXCEPT ![j + 1] = set.entities[n]]
                        /\ Len(set'.sparse) = Len(set.sparse)
                        /\ set'.sparse[id + 1] = NoSlot
                        /\ set'.sparse[moved + 1] = j
                        /\ \A k \in 1 .. Len(set.sparse) :
                              k \notin {id + 1, moved + 1} => set'.sparse[k] = set.sparse[k]
                   ELSE /\ set'.dense = Pop(set.dense)
                        /\ set'.entities = Pop(set.entities)
                        /\ set'.sparse = [set.sparse EXCEPT ![id + 1] = NoSlot]
                /\ \A i \in 0 .. MaxEntities + 1 :
                      i # id => SparseSetGet(set', i) = SparseSetGet(set, i) ]_vars

\* the element in dense slot 0 of three has been removed: the former last element
\* now occupies slot 0
C6_Witness ==
    /\ last.op = "remove"
    /\ last.res = "Some"
    /\ last.slot = 0
    /\ Len(set.dense) = 2
    /\ set.sparse[set.entities[1].id + 1] = 0
    /\ set.dense[1] # set.dense[2]

\* the live entities that hold a component of every type the query tuple names
HoldAll(shape) ==
    {e \in alive : \A k \in 1 .. Len(shape) : get_component(shape[k].c, e) # NoValue}

\* C7: for a two-element query, every row yielded belongs to an entity that holds
\* both component types and carries the values stored for it, no entity is yielded
\* twice, and once next() has returned None the rows are exactly the entities holding
\* both types: their number is the cardinality of the overlap, and entities missing
\* either type were skipped
C7_QueryIntersection ==
    (qiter.active /\ Len(qiter.shape) = 2) =>
        LET both == HoldAll(qiter.shape)
        IN  /\ \A i \in 1 .. Len(rows) :
                  \E e \in both :
                      /\ e.id = rows[i].id
                      /\ \A k \in 1 .. 2 :
                            rows[i].refs[k].v = get_component(qiter.shape[k].c, e)
            /\ \A i, j \in 1 .. Len(rows) : rows[i].id = rows[j].id => i = j
            /\ (last.op = "next" /\ last.res = "None") =>
                  /\ {rows[i].id : i \in 1 .. Len(rows)} = {e.id : e \in both}
                  /\ Len(rows) = Cardinality(both)

\* a query over two different types has run to None with two live entities, one
\* holding both types and one holding only the first: one row was yielded
C7_Witness ==
    /\ qiter.active
    /\ Len(qiter.shape) = 2
    /\ qiter.shape[1].c # qiter.shape[2].c
    /\ last.op = "next"
    /\ last.res = "None"
    /\ Len(rows) = 1
    /\ \E e \in alive :
          /\ get_component(qiter.shape[1].c, e) # NoValue
          /\ get_component(qiter.shape[2].c, e) = NoValue

\* C8: no row a query yields holds two references to the same stored value (the same
\* dense slot of the same component store) of which at least one is mutable
C8_NoAliasedRefs ==
    \A i \in 1 .. Len(rows) :
        \A j, k \in 1 .. Len(rows[i].refs) :
            (j < k /\ rows[i].refs[j].c = rows[i].refs[k].c
                   /\ rows[i].refs[j].slot = rows[i].refs[k].slot)
                => ~(rows[i].refs[j].mut \/ rows[i].refs[k].mut)

\* C9: the parameters assembled for one system invocation never hold two references
\* to the same component store or resource, from two different parameters, of which
\* at least one is mutable
C9_NoConflictingParams ==
    \A n \in 1 .. Len(invoked) :
        \A a, b \in invoked[n].refs :
            (a.param # b.param /\ a.target = b.target) => ~(a.mut \/ b.mut)

\* C10: while run_systems is in its loop the systems invoked so far are the first
\* systems of the list, one invocation each and in list order; when it has returned,
\* the invocations are exactly the registered systems in registration order
C10_RunInRegistrationOrder ==
    /\ (run.active /\ ~panicked) =>
          /\ Len(invoked) = run.index
          /\ run.index <= Len(systems)
          /\ \A k \in 1 .. Len(invoked) : invoked[k].called /\ invoked[k].sys = systems[k]
    /\ (last.op = "run_systems" /\ last.res = "Ok") =>
          /\ Len(invoked) = Len(systems)
          /\ \A k \in 1 .. Len(systems) : invoked[k].called /\ invoked[k].sys = systems[k]

\* run_systems has returned after optional_resource_system, registered first, marked
\* the counter and time_reader_system, registered second, counted on from the mark
C10_Witness ==
    /\ last.op = "run_systems"
    /\ last.res = "Ok"
    /\ systems = <<"optional_resource_system", "time_reader_system">>
    /\ Len(invoked) = 2
    /\ resources["Counter"] = Resource(PresentMark + 1)

\* C11: when the system run_systems invokes next declares Res<R> or ResMut<R>, at
\* whatever position, for a resource type R that is not stored, the invocation panics
\* naming such an R and the function is not called: it is recorded as not called and
\* components and resources are unchanged.  When no mandatory resource is missing the
\* function is called and nothing panics
C11_MissingMandatoryIsFatal ==
    [][ (run.active /\ ~panicked /\ run.index < Len(systems)) =>
            LET s == systems[run.index + 1]
                miss == {k \in 1 .. Len(Params(s)) :
                            /\ Params(s)[k].kind \in {"Res", "ResMut"}
                            /\ resources[Params(s)[k].r] = NoResource}
            IN  IF miss # {}
                THEN /\ panicked'
                     /\ Len(invoked') = Len(invoked) + 1
                     /\ invoked'[Len(invoked')].sys = s
                     /\ ~invoked'[Len(invoked')].called
                     /\ invoked'[Len(invoked')].missing \in {Params(s)[k].r : k \in miss}
                     /\ last'.res = "Panic"
                     /\ UNCHANGED <<resources, components>>
                ELSE /\ ~panicked'
                     /\ Len(invoked') = Len(invoked) + 1
                     /\ invoked'[Len(invoked')].sys = s
                     /\ invoked'[Len(invoked')].called ]_vars

\* time_reader_system(Res<Time>, ResMut<Counter>) was invoked with Time stored and
\* Counter not: the second parameter failed and the panic names Counter
C11_Witness ==
    /\ panicked
    /\ last.res = "Panic"
    /\ has_resource("Time")
    /\ ~has_resource("Counter")
    /\ invoked # <<>>
    /\ invoked[Len(invoked)].sys = "time_reader_system"
    /\ ~invoked[Len(invoked)].called
    /\ invoked[Len(invoked)].missing = "Counter"

\* C12: when the system run_systems invokes next declares OptionalRes<R> or
\* OptionalResMut<R> and none of its mandatory resources is missing, the invocation does
\* not panic and the function is called once, whether or not R is stored; the optional
\* parameter holds a reference to the stored R (mutable for OptionalResMut) exactly when
\* R is stored at that moment, and optional_resource_system writes the mark of the case
\* it saw
C12_MissingOptionalNotFatal ==
    [][ (run.active /\ ~panicked /\ run.index < Len(systems)) =>
            LET s == systems[run.index + 1]
                opt == {k \in 1 .. Len(Params(s)) :
                           Params(s)[k].kind \in {"OptionalRes", "OptionalResMut"}}
                miss == {k \in 1 .. Len(Params(s)) :
                            /\ Params(s)[k].kind \in {"Res", "ResMut"}
                            /\ resources[Params(s)[k].r] = NoResource}
            IN  (opt # {} /\ miss = {}) =>
                    /\ ~panicked'
                    /\ run'.index = run.index + 1
                    /\ Len(invoked') = Len(invoked) + 1
                    /\ invoked'[Len(invoked')].sys = s
                    /\ invoked'[Len(invoked')].called
                    /\ \A k \in opt :
                          LET handle == {x \in invoked'[Len(invoked')].refs : x.param = k}
                          IN  IF resources[Params(s)[k].r] # NoResource
                              THEN handle = {[param |-> k,
                                              target |-> <<"resource", Params(s)[k].r>>,
                                              mut |-> Params(s)[k].kind = "OptionalResMut"]}
                              ELSE handle = {}
                    /\ s = "optional_resource_system" =>
                          resources'["Counter"] =
                              IF resources["Time"] # NoResource
                              THEN Resource(PresentMark) ELSE Resource(AbsentMark) ]_vars

\* optional_pair_system(OptionalRes<Time>, OptionalResMut<Counter>) has been called
\* with neither resource stored: both handles are empty
C12_Witness ==
    /\ ~panicked
    /\ last.op = "system"
    /\ invoked # <<>>
    /\ invoked[Len(invoked)].sys = "optional_pair_system"
    /\ invoked[Len(invoked)].called
    /\ invoked[Len(invoked)].refs = {}
    /\ ~has_resource("Time")
    /\ ~has_resource("Counter")

\* C13: add_component::<C>(e, v) returns InvalidEntity exactly when e is not valid at
\* the call, and then no store is created or changed and the entity manager is
\* unchanged; when e is valid it returns Ok, a store for C exists afterwards, the stores
\* of the other types are unchanged, e is still valid and get_component::<C>(e) is v
C13_AddComponentContract ==
    [][ last'.op = "add_component" =>
        \A e \in {last'.e}, c \in ComponentTypes, v \in Values :
          AddComponent(e, c, v) =>
            IF e.id < Len(generations) /\ generations[e.id + 1] = e.gen
            THEN /\ last'.res = "Ok"
                 /\ components'[c] # NoStore
                 /\ \A d \in ComponentTypes \ {c} : components'[d] = components[d]
                 /\ UNCHANGED <<generations, free_list>>
                 /\ get_component(c, e)' = v
            ELSE /\ last'.res = "InvalidEntity"
                 /\ UNCHANGED <<generations, free_list, components>> ]_vars

\* add_component has returned Ok for an entity that now holds the largest value in a
\* store, while the store of the other type has never been created
C13_Witness ==
    /\ last.op = "add_component"
    /\ last.res = "Ok"
    /\ \E c \in ComponentTypes :
          /\ get_component(c, last.e) = MaxVal
          /\ \A d \in ComponentTypes \ {c} : components[d] = NoStore

\* C14: remove_component::<C>(e) returns InvalidEntity when e is not valid at the call,
\* ComponentNotFound when e is valid and there is no store for C or the store has no
\* value for e, and otherwise Ok with the value get_component::<C>(e) returned before
\* the call.  After Ok, e is still valid and get_component::<C>(e) is empty, so that
\* removing again returns ComponentNotFound.  On either error the entity manager and
\* every component store are unchanged
C14_RemoveComponentContract ==
    [][ last'.op = "remove_component" =>
        \A e \in {last'.e}, c \in ComponentTypes :
          RemoveComponent(e, c) =>
            IF ~(e.id < Len(generations) /\ generations[e.id + 1] = e.gen)
            THEN /\ last'.res = "InvalidEntity"
                 /\ UNCHANGED <<generations, free_list, components>>
            ELSE IF get_component(c, e) = NoValue
            THEN /\ last'.res = "ComponentNotFound"
                 /\ UNCHANGED <<generations, free_list, components>>
            ELSE /\ last'.res = "Ok"
                 /\ last'.v = get_component(c, e)
                 /\ get_component(c, e)' = NoValue
                 /\ is_valid(e)'
                 /\ \A d \in ComponentTypes \ {c} : components'[d] = components[d]
                 /\ UNCHANGED <<generations, free_list>> ]_vars

\* remove_component has returned the largest value for an entity that no longer holds
\* it, while another entity still holds a component of the same type
C14_Witness ==
    /\ last.op = "remove_component"
    /\ last.res = "Ok"
    /\ last.v = MaxVal
    /\ is_valid(last.e)
    /\ \E c \in ComponentTypes :
          /\ components[c] # NoStore
          /\ get_component(c, last.e) = NoValue
          /\ \E o \in alive : o # last.e /\ get_component(c, o) # NoValue

\* what get_component answers for every handle and component type: the abstract map
AbstractMap == [e \in Handles, c \in ComponentTypes |-> get_component(c, e)]

\* the abstract map is unchanged by the step outside the keys K
MapFrame(K) ==
    \A c \in ComponentTypes :
        \/ UNCHANGED <<generations, components[c]>>
        \/ \A e \in Handles :
              <<e, c>> \notin K => get_component(c, e)' = get_component(c, e)

\* C15: get_component as a map from (handle, type) to value is empty on a new registry
\* and on every handle that is not valid, and every call acts on it as on a plain map:
\* add_component(e, C, v) returning Ok sets the entry of (e, C) to v, remove_component
\* returning Ok empties the entry of (e, C), destroy_entity returning Ok empties every
\* entry of e, spawn sets the entries of the new entity to the values of the bundle,
\* and no call changes any other entry; create_entity and the calls that return an
\* error change no entry.  So get_component::<C>(e) is Some(v) exactly when e is valid
\* and the most recent add of (e, C) stored v and no remove or destroy followed
C15_RefinesAbstractMap ==
    /\ \A e \in Handles, c \in ComponentTypes : get_component(c, e) = NoValue
    /\ [](\A e \in Handles, c \in ComponentTypes :
             ~(e.id < Len(generations) /\ generations[e.id + 1] = e.gen)
                 => get_component(c, e) = NoValue)
    /\ [][ \A e \in {last'.e} :
              IF last'.op = "add_component" /\ last'.res = "Ok"
              THEN \E c \in ComponentTypes, v \in Values :
                      /\ AddComponent(e, c, v)
                      /\ get_component(c, e)' = v
                      /\ MapFrame({<<e, c>>})
              ELSE IF last'.op = "remove_component" /\ last'.res = "Ok"
              THEN \E c \in ComponentTypes :
                      /\ RemoveComponent(e, c)
                      /\ get_component(c, e)' = NoValue
                      /\ MapFrame({<<e, c>>})
              ELSE IF last'.op = "destroy_entity" /\ last'.res = "Ok"
              THEN /\ \A c \in ComponentTypes : get_component(c, e)' = NoValue
                   /\ MapFrame({e} \X ComponentTypes)
              ELSE IF last'.op = "spawn" /\ last'.res = "Ok"
              THEN \E bundle \in {last'.bundle} :
                      /\ Spawn(bundle)
                      /\ \A k \in 1 .. Len(bundle) :
                            (\A m \in k + 1 .. Len(bundle) : bundle[m].c # bundle[k].c)
                                => get_component(bundle[k].c, e)' = bundle[k].v
                      /\ MapFrame({<<e, bundle[k].c>> : k \in 1 .. Len(bundle)})
              ELSE MapFrame({}) ]_vars

\* create_entity has handed out a recycled index while another entity holds a
\* component: the new entity holds nothing
C15_Witness ==
    /\ last.op = "create_entity"
    /\ last.e.gen = U32(2)
    /\ is_valid(last.e)
    /\ \A c \in ComponentTypes : AbstractMap[last.e, c] = NoValue
    /\ \E o \in alive, c \in ComponentTypes : o # last.e /\ AbstractMap[o, c] # NoValue

\* C16: no resource type ever has more than one stored value; insert_resource::<R>(v)
\* leaves exactly v stored for R and the other types as they were, and when a value of
\* R was already stored the number of stored resources is unchanged (otherwise it
\* grows by one)
C16_ResourceOverride ==
    /\ [](\A r \in ResourceTypes : Len(resources[r]) <= 1)
    /\ [][ last'.op = "insert_resource" =>
           \A r \in ResourceTypes, v \in Values :
              InsertResource(r, v) =>
                 /\ resources'[r] = <<v>>
                 /\ \A o \in ResourceTypes \ {r} : resources'[o] = resources[o]
                 /\ ResourceStorageLen(resources') =
                       IF resources[r] # <<>> THEN ResourceStorageLen(resources)
                       ELSE ResourceStorageLen(resources) + 1 ]_vars

\* insert_resource has replaced a stored value while the other resource type is
\* stored too: two resources are stored
C16_Witness ==
    /\ last.op = "insert_resource"
    /\ last.res = "Replaced"
    /\ ResourceStorageLen(resources) = 2
    /\ \E r \in ResourceTypes : resources[r] = <<MaxVal>>

\* C17: every system invoked by run_systems works on the registry as the systems
\* invoked before it in the same call have left it, not on a copy taken when the call
\* began: time_reader_system counts on from the counter stored at its own invocation if
\* the Time stored then is positive, optional_resource_system marks the counter by the
\* Time stored at its own invocation, and movement_system adds to each Position stored
\* at its own invocation the Velocity of the same entity
C17_NoSnapshot ==
    [][ (run.active /\ ~panicked /\ ~panicked' /\ run.index < Len(systems)) =>
            LET s == systems[run.index + 1]
            IN  /\ s = "time_reader_system" =>
                      /\ resources'["Time"] = resources["Time"]
                      /\ resources'["Counter"] =
                            <<resources["Counter"][1]
                                + (IF resources["Time"][1] > 0 THEN 1 ELSE 0)>>
                /\ s = "optional_resource_system" =>
                      /\ resources'["Time"] = resources["Time"]
                      /\ resources'["Counter"] =
                            IF resources["Time"] # <<>>
                            THEN <<PresentMark>> ELSE <<AbsentMark>>
                /\ s = "movement_system" =>
                      /\ resources' = resources
                      /\ \A e \in alive :
                            /\ get_component("Velocity", e)' = get_component("Velocity", e)
                            /\ get_component("Position", e)' =
                                  IF /\ get_component("Position", e) # NoValue
                                     /\ get_component("Velocity", e) # NoValue
                                  THEN get_component("Position", e)
                                           + get_component("Velocity", e)
                                  ELSE get_component("Position", e) ]_vars

\* in one run_systems call optional_resource_system has marked a counter that held
\* another value when the call began, and time_reader_system, invoked after it, has
\* counted on from the mark
C17_Witness ==
    /\ run.active
    /\ run.index = 2
    /\ Len(invoked) = 2
    /\ invoked[1].sys = "optional_resource_system"
    /\ invoked[2].sys = "time_reader_system"
    /\ invoked[2].called
    /\ run.start.resources["Counter"] # <<PresentMark>>
    /\ resources["Counter"] = <<PresentMark + 1>>

\* C18: for every bundle, spawn(bundle) does not panic: it returns an entity that is valid, every
\* component type of the bundle has a store afterwards, and get_component returns for
\* each type of the bundle the value the bundle holds for it (the last one, when a
\* tuple names a type twice); the entity manager is as after a create_entity
C18_SpawnNeverFails ==
    [][ last'.op = "spawn" =>
        \A bundle \in {last'.bundle}, e \in {last'.e} :
             /\ bundle \in Bundles
             /\ ~panicked'
             /\ last'.res = "Ok"
             /\ e.id < Len(generations') /\ generations'[e.id + 1] = e.gen
             /\ e \in alive'
             /\ Len(generations') + Len(free_list) = Len(generations) + Len(free_list') + 1
                  \/ Len(free_list') = Len(free_list) - 1
             /\ \A k \in 1 .. Len(bundle) :
                   /\ components'[bundle[k].c] # NoStore
                   /\ (\A m \in k + 1 .. Len(bundle) : bundle[m].c # bundle[k].c)
                         => get_component(bundle[k].c, e)' = bundle[k].v ]_vars

\* spawn has returned an entity on a recycled index that holds the two components of
\* its bundle
C18_Witness ==
    /\ last.op = "spawn"
    /\ last.res = "Ok"
    /\ ~panicked
    /\ last.e.gen = U32(2)
    /\ get_component("Position", last.e) = 0
    /\ get_component("Velocity", last.e) = MaxVal

\* C19: a query never panics, whatever its shape and the state of the registry.  While
\* a type it names has no store, or no live entity holds every type it names, the
\* query has yielded no row, and each next() on it returns None
C19_QueryNeverFails ==
    qiter.active =>
        /\ ~panicked
        /\ qiter.entity_index >= Len(rows)
        /\ ((\E k \in 1 .. Len(qiter.shape) : components[qiter.shape[k].c] = NoStore)
              \/ HoldAll(qiter.shape) = {}) =>
                 /\ rows = <<>>
                 /\ last.op = "next" => last.res = "None"

\* a query over two types has returned None without a row: both stores hold a
\* component, but no entity holds both types
C19_Witness ==
    /\ qiter.active
    /\ Len(qiter.shape) = 2
    /\ last.op = "next"
    /\ last.res = "None"
    /\ rows = <<>>
    /\ \A k \in 1 .. 2 :
          /\ components[qiter.shape[k].c] # NoStore
          /\ SparseSetLen(components[qiter.shape[k].c][1]) = 1
    /\ HoldAll(qiter.shape) = {}

\* what get_component::<C>(e) returned when the current run_systems call began
StartValue(c, e) ==
    IF ~is_valid(e) \/ run.start.components[c] = NoStore THEN NoValue
    ELSE SparseSetGet(run.start.components[c][1], e.id)

\* the number of times the current run_systems call has called movement_system
Moves ==
    Cardinality({k \in 1 .. Len(invoked) :
                    invoked[k].sys = "movement_system" /\ invoked[k].called})

\* C20: during a run_systems call, after movement_system has been called n times (once,
\* for a list that holds it once), get_component gives for every live entity the
\* Velocity it had when the call began, and a Position that is the one it had then
\* plus n times its Velocity if it holds both, and the one it had then otherwise;
\* run_systems then returns without touching the stores
C20_MovementSystem ==
    /\ [](run.active =>
             \A e \in alive :
                 /\ get_component("Velocity", e) = StartValue("Velocity", e)
                 /\ get_component("Position", e) =
                       IF /\ StartValue("Position", e) # NoValue
                          /\ StartValue("Velocity", e) # NoValue
                       THEN StartValue("Position", e) + Moves * StartValue("Velocity", e)
                       ELSE StartValue("Position", e))
    /\ [][ (run.active /\ ~run'.active) =>
              /\ last'.op = "run_systems" /\ last'.res = "Ok"
              /\ run.index = Len(systems)
              /\ UNCHANGED <<components, generations, free_list, systems>> ]_vars

\* run_systems has called movement_system, the only system: the entity spawned with
\* Position 0 and Velocity 1 has Position 1, and the entity without a Velocity has the
\* Position it was spawned with
C20_Witness ==
    /\ run.active
    /\ ~panicked
    /\ systems = <<"movement_system">>
    /\ run.index = 1
    /\ Moves = 1
    /\ \E e, o \in alive :
          /\ StartValue("Position", e) = 0
          /\ StartValue("Velocity", e) = 1
          /\ get_component("Position", e) = 1
          /\ get_component("Velocity", e) = 1
          /\ get_component("Velocity", o) = NoValue
          /\ get_component("Position", o) = MaxVal

\* C21: create_entity never fails: every index on the free list is inside the
\* generation table, so the table read cannot go out of bounds.  With a non-empty
\* free list it pops the index freed last and returns (index, the table's generation
\* for it), the table unchanged; with an empty free list it appends generation 1 and
\* returns (old table length, 1).  The entity returned is valid.  No call shortens the
\* table, and only a create_entity on an empty free list lengthens it.
C21_CreateEntity ==
    /\ [](\A k \in 1 .. Len(free_list) : free_list[k] < Len(generations))
    /\ [][ /\ Len(generations') >= Len(generations)
           /\ Len(generations') > Len(generations)
                 => last'.op = "create_entity" /\ free_list = <<>>
           /\ last'.op = "create_entity" =>
                 /\ last'.res = "Ok"
                 /\ ~panicked'
                 /\ IsValidAt(generations', last'.e)
                 /\ (last.op = "destroy_entity" /\ last.res = "Ok") => last'.e.id = last.e.id
                 /\ IF free_list # <<>>
                    THEN /\ last'.e = Entity(free_list[Len(free_list)],
                                             generations[free_list[Len(free_list)] + 1])
                         /\ free_list' = SubSeq(free_list, 1, Len(free_list) - 1)
                         /\ generations' = generations
                    ELSE /\ last'.e = Entity(Len(generations), U32(1))
                         /\ generations' = generations \o <<U32(1)>>
                         /\ free_list' = <<>> ]_vars

\* index 0 was freed, then index 1: create_entity has handed out index 1 with the
\* table's generation 2 and left index 0 on the free list
C21_Witness ==
    /\ last.op = "create_entity"
    /\ last.e = Entity(1, U32(2))
    /\ free_list = <<0>>
    /\ generations = <<U32(2), U32(2)>>
    /\ is_valid(last.e)

\* C22: SparseSet::insert for an entity index that has a slot writes the value into
\* that dense slot and leaves len(), the index's slot and every other index's slot
\* and value as they were; for an index without a slot it appends one row at the end
\* of the dense arrays and points the index at it.  No two dense rows are ever of
\* the same entity index.
C22_InsertUpdates ==
    /\ [](\A i, j \in 1 .. Len(set.entities) :
              set.entities[i].id = set.entities[j].id => i = j)
    /\ [][ last'.op = "insert" =>
             \A entity \in {last'.e} : \A v \in Values : SetInsert(entity, v) =>
                 /\ \A o \in (0 .. MaxEntities + 1) \ {entity.id} :
                       /\ SparseSetSlot(set', o) = SparseSetSlot(set, o)
                       /\ SparseSetGet(set', o) = SparseSetGet(set, o)
                 /\ IF SparseSetSlot(set, entity.id) # NoSlot
                    THEN /\ SparseSetLen(set') = SparseSetLen(set)
                         /\ Len(set'.entities) = Len(set.entities)
                         /\ SparseSetSlot(set', entity.id) = SparseSetSlot(set, entity.id)
                         /\ set'.dense[SparseSetSlot(set, entity.id) + 1] = v
                         /\ \A k \in 1 .. Len(set.dense) :
                               k # SparseSetSlot(set, entity.id) + 1
                                  => set'.dense[k] = set.dense[k]
                    ELSE /\ set'.dense = set.dense \o <<v>>
                         /\ set'.entities = set.entities \o <<entity>>
                         /\ SparseSetSlot(set', entity.id) = Len(set.dense) ]_vars

\* the last insert was an update: the set holds two rows and the entity inserted is in
\* the first one, with the generation of the handle just passed
C22_Witness ==
    /\ last.op = "insert"
    /\ SparseSetLen(set) = 2
    /\ SparseSetSlot(set, last.e.id) = 0
    /\ set.entities[1] = last.e
    /\ last.e.gen = U32(2)
    /\ set.dense = <<1, 0>>

\* the length of the shortest entity list among the stores of a query tuple
MinLen(shape) ==
    CHOOSE n \in {Len(EntitiesOf(shape, k)) : k \in 1 .. Len(shape)} :
        \A k \in 1 .. Len(shape) : n <= Len(EntitiesOf(shape, k))

\* the first-listed element of the tuple whose store has the shortest entity list
DriverOf(shape) ==
    CHOOSE k \in 1 .. Len(shape) :
        /\ Len(EntitiesOf(shape, k)) = MinLen(shape)
        /\ \A m \in 1 .. k - 1 : Len(EntitiesOf(shape, m)) > MinLen(shape)

\* C23: a query over existing stores is driven by the smallest of its stores' entity
\* lists: the cursor never passes that list's length, next() returns None exactly at
\* its end, and a row returned is of the entity the cursor has just passed in that
\* list.  From the construction of the query to its drop no store changes, so the
\* set that was smallest when the query was constructed is the driver at every step.
C23_DriverIsSmallest ==
    /\ []((qiter.active /\ AllStorages(qiter.shape)) =>
             /\ qiter.entity_index <= MinLen(qiter.shape)
             /\ (last.op = "next" /\ last.res = "None")
                   => qiter.entity_index = MinLen(qiter.shape)
             /\ (last.op = "next" /\ last.res = "Some")
                   => /\ qiter.entity_index >= 1
                      /\ EntitiesOf(qiter.shape, DriverOf(qiter.shape))[qiter.entity_index]
                            = last.e)
    /\ [][ (qiter'.active /\ (qiter.active \/ last'.op = "query")) =>
              /\ components' = components
              /\ qiter.active => qiter'.shape = qiter.shape
              /\ (qiter.active /\ AllStorages(qiter.shape))
                    => /\ DriverOf(qiter.shape)' = DriverOf(qiter.shape)
                       /\ MinLen(qiter.shape)' = MinLen(qiter.shape) ]_vars

\* a query of (Position, Velocity) over two Positions and one Velocity has returned one
\* row and then None with the cursor at 1: it was driven by the Velocity store, the
\* second-listed and the smaller one, on both calls
C23_Witness ==
    /\ qiter.active
    /\ Len(qiter.shape) = 2
    /\ qiter.shape[1].c = "Position"
    /\ qiter.shape[2].c = "Velocity"
    /\ AllStorages(qiter.shape)
    /\ Len(EntitiesOf(qiter.shape, 1)) = 2
    /\ Len(EntitiesOf(qiter.shape, 2)) = 1
    /\ DriverOf(qiter.shape) = 2
    /\ last.op = "next"
    /\ last.res = "None"
    /\ Len(rows) = 1
    /\ qiter.entity_index = 1

\* the entity indices of a sequence of rows
Ids(rs) == [k \in 1 .. Len(rs) |-> rs[k].id]

\* the entity indices, in order, of the entities of a list that hold every component
\* type of the query tuple, as SparseSet::get tells
Matching(shape, entities) ==
    LET held == SelectSeq(entities,
                          LAMBDA e : \A k \in 1 .. Len(shape) :
                                        SparseSetGet(components[shape[k].c][1], e.id) # NoValue)
    IN  [k \in 1 .. Len(held) |-> held[k].id]

\* the entity indices of the dense entity list of the store of c, in dense order
DenseIds(stores, c) ==
    [k \in 1 .. Len(stores[c][1].entities) |-> stores[c][1].entities[k].id]

\* swap removal on a list: the element at position p leaves, the last takes its place
SwapRemoved(s, p) ==
    IF p = Len(s) THEN SubSeq(s, 1, Len(s) - 1)
    ELSE [SubSeq(s, 1, Len(s) - 1) EXCEPT ![p] = s[Len(s)]]

\* C24: the rows a query has yielded are, in order, the matching entities of the part
\* of the driver's dense entity list the cursor has passed: if a precedes b there and
\* both match, a's row comes before b's.  A remove_component that takes a row out of a
\* store changes that store's dense order, the order a query driven by it follows: the
\* entity of the last row takes the place of the one removed, before every entity
\* that was between them.
C24_DenseOrder ==
    /\ []((qiter.active /\ AllStorages(qiter.shape)) =>
             Ids(rows) =
                 Matching(qiter.shape,
                          SubSeq(EntitiesOf(qiter.shape, DriverOf(qiter.shape)),
                                 1, qiter.entity_index)))
    /\ [][ (last'.op = "remove_component" /\ last'.res = "Ok") =>
              \A c \in {c \in ComponentTypes : components'[c] # components[c]} :
                  LET before == DenseIds(components, c)
                      after  == DenseIds(components', c)
                      p      == CHOOSE p \in 1 .. Len(before) : before[p] = last'.e.id
                  IN  /\ after = SwapRemoved(before, p)
                      /\ p + 1 < Len(before) =>
                            \E i, j \in 1 .. Len(after) :
                                /\ i < j
                                /\ after[i] = before[Len(before)]
                                /\ after[j] = before[p + 1] ]_vars

\* a query of Position has yielded the row of entity 2 and then the row of entity 1,
\* the order of the store's dense list, which is not the order of the entity indices
C24_Witness ==
    /\ qiter.active
    /\ qiter.shape = <<Item("Position", FALSE)>>
    /\ last.op = "next"
    /\ last.res = "Some"
    /\ Ids(rows) = <<2, 1>>
    /\ Len(components["Position"][1].entities) = 2
    /\ components["Position"][1].entities[1].id = 2
    /\ components["Position"][1].entities[2].id = 1
    /\ components["Position"][1].sparse[1] = NoSlot

\* C25: a query iteration terminates.  The rows returned never outnumber the cursor,
\* and the cursor never passes the driver's length (it stays 0 when a store is
\* missing), so next() returns None by call number (driver length + 1).  A next() moves
\* the cursor forward only, by at least one when it returns a row.  After a None every
\* further next() returns None and changes nothing.  An iterator that is kept being
\* polled reaches None unless it is dropped before.
C25_IterationTerminates ==
    /\ [](qiter.active =>
             /\ Len(rows) <= qiter.entity_index
             /\ IF AllStorages(qiter.shape)
                THEN qiter.entity_index <= MinLen(qiter.shape)
                ELSE qiter.entity_index = 0)
    /\ [][ last'.op = "next" =>
              /\ qiter'.entity_index >= qiter.entity_index
              /\ last'.res = "Some" => /\ qiter'.entity_index > qiter.entity_index
                                       /\ Len(rows') = Len(rows) + 1
              /\ last'.res = "None" => rows' = rows
              /\ (last.op = "next" /\ last.res = "None")
                    => last'.res = "None" /\ qiter' = qiter ]_vars
    /\ (qiter.active ~> (~qiter.active \/ (last.op = "next" /\ last.res = "None")))

\* a query of two types over a driver of two entities has passed one that does not
\* match, returned the row of the other and then None: two calls, the cursor at the
\* driver's length
C25_Witness ==
    /\ qiter.active
    /\ Len(qiter.shape) = 2
    /\ AllStorages(qiter.shape)
    /\ MinLen(qiter.shape) = 2
    /\ Len(rows) = 1
    /\ qiter.entity_index = 2
    /\ last.op = "next"
    /\ last.res = "None"

\* C26: init_resource::<R>() stores R::default() when no R is stored, and leaves a
\* stored R as it is, whether insert_resource, a system or an earlier init_resource
\* put it there; it touches no other resource type, and a second init_resource in a
\* row changes nothing.
C26_InitResource ==
    [][ last'.op = "init_resource" =>
          /\ \A r \in DefaultTypes : InitResource(r) =>
                /\ has_resource(r)'
                /\ resources'[r] = IF resources[r] = <<>> THEN <<DefaultValue>> ELSE resources[r]
                /\ \A o \in ResourceTypes \ {r} : resources'[o] = resources[o]
          /\ last.op = "init_resource" => resources' = resources
          /\ ~panicked' ]_vars

\* init_resource::<Counter>() was called on a registry holding a Counter other than the
\* default, and the Counter is still that one
C26_Witness ==
    /\ last.op = "init_resource"
    /\ resources["Counter"] # NoResource
    /\ resources["Counter"] # Resource(DefaultValue)

\* C27: register_component::<C>() creates an empty store for C when there is none and
\* leaves an existing store of C, empty or not, exactly as it is; either way every
\* other store, every component of every entity and the entity manager are unchanged.
C27_RegisterIdempotent ==
    [][ last'.op = "register_component" =>
          /\ \A c \in ComponentTypes : RegisterComponent(c) =>
                /\ components'[c] = IF components[c] = <<>> THEN <<SparseSetNew>>
                                    ELSE components[c]
                /\ \A o \in ComponentTypes \ {c} : components'[o] = components[o]
          /\ \A e \in Handles, c \in ComponentTypes :
                get_component(c, e)' = get_component(c, e)
          /\ UNCHANGED <<generations, free_list>>
          /\ last.op = "register_component" =>
                \A c \in ComponentTypes : components[c] # <<>> => components'[c] = components[c]
          /\ ~panicked' ]_vars

\* register_component was called while both stores existed and held a component: the
\* components are still there
C27_Witness ==
    /\ last.op = "register_component"
    /\ \A c \in ComponentTypes :
          /\ components[c] # NoStore
          /\ SparseSetLen(components[c][1]) >= 1
          /\ \E e \in alive : get_component(c, e) # NoValue

\* C28: remove_resource::<R>() returns the stored R, after which has_resource::<R>() is
\* false and get_resource::<R>() is None; with no R stored it returns None and changes
\* nothing; the other resource types are as they were.  has_resource::<R>() is false
\* in a new registry, becomes true only by an insert (insert_resource, or
\* init_resource inserting the default) and false only by remove_resource, is true
\* after every insert of R and false after every remove of R.
C28_RemoveResource ==
    /\ \A r \in ResourceTypes : ~has_resource(r)
    /\ [][ /\ last'.op = "remove_resource" =>
                \A r \in ResourceTypes : RemoveResource(r) =>
                    /\ ~has_resource(r)'
                    /\ get_resource(r)' = NoValue
                    /\ \A o \in ResourceTypes \ {r} :
                          /\ has_resource(o)' = has_resource(o)
                          /\ get_resource(o)' = get_resource(o)
                    /\ IF has_resource(r)
                       THEN last'.res = "Some" /\ last'.v = get_resource(r)
                       ELSE last'.res = "None" /\ resources' = resources
           /\ last'.op = "insert_resource" =>
                \A r \in ResourceTypes, v \in Values : InsertResource(r, v) => has_resource(r)'
           /\ \A r \in ResourceTypes :
                /\ (~has_resource(r) /\ has_resource(r)')
                      => last'.op \in {"insert_resource", "init_resource"}
                /\ (has_resource(r) /\ ~has_resource(r)')
                      => last'.op = "remove_resource" ]_vars

\* remove_resource has returned the value 1 of one resource type, which is no longer
\* stored, while the other type still holds its value 0
C28_Witness ==
    /\ last.op = "remove_resource"
    /\ last.res = "Some"
    /\ last.v = 1
    /\ \E r \in ResourceTypes :
          /\ ~has_resource(r)
          /\ get_resource(r) = NoValue
          /\ \A o \in ResourceTypes \ {r} : get_resource(o) = 0

\* C29: system_count() is 0 in a new registry, one more after each add_system, 0 after
\* clear_systems, and the same after any other call: the number of add_system calls
\* since the registry was created or last cleared.  A run_systems on an empty system
\* list, a list just cleared included, invokes no system and returns with the
\* resources, the stores and the entity manager as they were.
C29_SystemCount ==
    /\ system_count = 0
    /\ [](run.active =>
             /\ Len(invoked) <= system_count
             /\ system_count = 0 =>
                   /\ invoked = <<>>
                   /\ resources = run.start.resources
                   /\ components = run.start.components
                   /\ ~panicked)
    /\ [][ /\ system_count' =
                 IF last'.op = "add_system" THEN system_count + 1
                 ELSE IF last'.op = "clear_systems" THEN 0
                 ELSE system_count
           /\ (last'.op = "run_systems" /\ system_count = 0) =>
                 /\ last'.res \in {"Running", "Ok"}
                 /\ invoked' = <<>>
                 /\ UNCHANGED <<resources, components, generations, free_list, systems>> ]_vars

\* optional_resource_system has run and left its mark in the Counter; the systems
\* were cleared since, and a run_systems on the empty list has returned having
\* invoked nothing
C29_Witness ==
    /\ last.op = "run_systems"
    /\ last.res = "Ok"
    /\ system_count = 0
    /\ invoked = <<>>
    /\ get_resource("Counter") \in {PresentMark, AbsentMark}

\* C30: the generation stored for an index never decreases; a destroy_entity that
\* returns Ok makes it greater by exactly one, without wrapping around, so the handle
\* just destroyed carries a generation strictly below the table's from then on.
\* (SpecEM)
C30_GenerationMonotone ==
    [][ /\ \A i \in 1 .. Len(generations) : ~U32Lt(generations'[i], generations[i])
        /\ (last'.op = "destroy_entity" /\ last'.res = "Ok") =>
              /\ generations'[last'.e.id + 1] = WrappingInc(generations[last'.e.id + 1])
              /\ U32Lt(generations[last'.e.id + 1], generations'[last'.e.id + 1])
              /\ U32Lt(last'.e.gen, generations'[last'.e.id + 1]) ]_vars

\* C31: every entity recorded in the dense entity list of a component store is valid
\* in the entity manager, and is not a handle destroy_entity has accepted; the
\* references of every row a query yields point at dense slots recorded for such an
\* entity, of the row's index.
C31_StoredEntitiesValid ==
    /\ \A c \in ComponentTypes :
          components[c] # NoStore =>
              \A j \in 1 .. Len(components[c][1].entities) :
                  /\ is_valid(components[c][1].entities[j])
                  /\ components[c][1].entities[j] \notin retired
    /\ \A shape \in QueryShapes :
          LET rs == AllRows(shape)
          IN  \A i \in 1 .. Len(rs) :
                  \A k \in 1 .. Len(shape) :
                      LET ref   == rs[i].refs[k]
                          owner == components[ref.c][1].entities[ref.slot + 1]
                      IN  /\ ref.slot # NoSlot
                          /\ owner.id = rs[i].id
                          /\ is_valid(owner)
                          /\ owner \notin retired

\* an entity holding components has been destroyed and its index not handed out
\* again, another entity still holds both component types, and a query of both
\* yields its row
C31_Witness ==
    /\ last.op = "destroy_entity"
    /\ last.res = "Ok"
    /\ last.purged = ComponentTypes
    /\ last.e \in retired
    /\ Len(AllRows(<<Item("Position", TRUE), Item("Velocity", FALSE)>>)) = 1

\* C32: with destroy_entity called on arbitrary Entity values, the free list holds no
\* index twice and no index of an entity create_entity returned and nobody destroyed
\* since, and create_entity does not return an entity that is live.
C32_FreeListDistinct ==
    /\ [](/\ \A i, j \in 1 .. Len(free_list) : free_list[i] = free_list[j] => i = j
          /\ \A i \in 1 .. Len(free_list) : \A e \in alive : e.id # free_list[i])
    /\ [][ last'.op = "create_entity" => last'.e \notin alive ]_vars

\* C33: an entity create_entity has just returned holds no component of any type,
\* and no query yields a row for its index, whatever calls came before, add_component
\* on arbitrary Entity values included.
C33_CreatedEntityIsBare ==
    last.op = "create_entity" =>
        /\ \A c \in ComponentTypes : get_component(c, last.e) = NoValue
        /\ \A shape \in QueryShapes :
              LET rs == AllRows(shape)
              IN  \A i \in 1 .. Len(rs) : rs[i].id # last.e.id

\* the dense entity list of a SparseSet names no index twice, and the sparse entry of
\* the index in dense slot j is Some(j)
DenseToSparse(ss) ==
    /\ Len(ss.entities) = Len(ss.dense)
    /\ \A i, j \in 1 .. Len(ss.entities) : ss.entities[i].id = ss.entities[j].id => i = j
    /\ \A j \in 1 .. Len(ss.entities) :
          /\ ss.entities[j].id < Len(ss.sparse)
          /\ ss.sparse[ss.entities[j].id + 1] = j - 1

\* C34: in every component store the entities of the dense list have pairwise
\* distinct indices and sparse[entities[j].id()] = Some(j) for every dense slot j;
\* every query yields at most one row per entity index.
C34_DenseSparseBijection ==
    /\ \A c \in ComponentTypes : components[c] # NoStore => DenseToSparse(components[c][1])
    /\ \A shape \in QueryShapes :
          LET rs == AllRows(shape)
          IN  \A i, j \in 1 .. Len(rs) : rs[i].id = rs[j].id => i = j

\* a store holds two entities, the re-created entity 1 ahead of entity 0; the last
\* call was an add_component, and the query of that type yields two rows
C34_Witness ==
    /\ last.op = "add_component"
    /\ last.res = "Ok"
    /\ components["Position"] # NoStore
    /\ Len(components["Position"][1].entities) = 2
    /\ components["Position"][1].entities[1] = Entity(1, U32(2))
    /\ components["Position"][1].entities[2].id = 0
    /\ last.e = Entity(1, U32(2))
    /\ Len(AllRows(<<Item("Position", FALSE)>>)) = 2

\* what a two-element query yields, as a set: for each row the entity index, the value
\* of the element listed at position `first` and the value of the other element
Yield(shape, first) ==
    LET rs == AllRows(shape)
    IN  {<<rs[i].id, rs[i].refs[first].v, rs[i].refs[3 - first].v>> : i \in 1 .. Len(rs)}

\* C35: for every two query elements a and b, the query (a, b) and the query (b, a)
\* yield rows for the same entities with the same value of a and the same value of b,
\* whichever store drives either of them.
C35_OrderIndependent ==
    \A a, b \in QueryItems : Yield(<<a, b>>, 1) = Yield(<<b, a>>, 2)

\* both stores hold both entities, in opposite dense orders: the query
\* (Position, Velocity) is driven by the Position store and (Velocity, Position) by the
\* Velocity store, they yield their rows in opposite orders, and the rows are the same
C35_Witness ==
    /\ components["Position"] # NoStore
    /\ components["Velocity"] # NoStore
    /\ Len(components["Position"][1].entities) = 2
    /\ Len(components["Velocity"][1].entities) = 2
    /\ components["Position"][1].entities[1].id # components["Velocity"][1].entities[1].id
    /\ components["Position"][1].dense = <<0, 1>>
    /\ components["Velocity"][1].dense = <<0, 1>>
    /\ Ids(AllRows(<<Item("Position", FALSE), Item("Velocity", FALSE)>>))
          # Ids(AllRows(<<Item("Velocity", FALSE), Item("Position", FALSE)>>))
    /\ Cardinality(Yield(<<Item("Position", FALSE), Item("Velocity", FALSE)>>, 1)) = 2

\* C36: when run_systems has panicked on a system whose mandatory resource is missing,
\* the systems registered before it have been invoked, once each and in order, the
\* failing system's function was not called, and no later system was invoked.  The
\* panic itself changes no resource and no component, so what the earlier systems
\* wrote is what the registry holds.
C36_PanicKeepsEarlierWork ==
    /\ []((panicked /\ last.op = "run_systems" /\ last.res = "Panic") =>
             /\ run.active
             /\ run.index < Len(systems)
             /\ Len(invoked) = run.index + 1
             /\ \A k \in 1 .. run.index : invoked[k].called /\ invoked[k].sys = systems[k]
             /\ ~invoked[run.index + 1].called
             /\ invoked[run.index + 1].sys = systems[run.index + 1]
             /\ ~has_resource(invoked[run.index + 1].missing))
    /\ [][ /\ (~panicked /\ panicked' /\ last'.op = "run_systems") =>
                 /\ UNCHANGED <<resources, components, systems, run>>
                 /\ SubSeq(invoked', 1, Len(invoked)) = invoked
           /\ panicked => UNCHANGED <<resources, components, systems, invoked>> ]_vars

\* optional_resource_system, registered first, found no Time and wrote its mark into
\* the Counter; time_reader_system, registered second, panicked on the missing Time:
\* the mark is in the registry, and it is not the Counter the call began with
C36_Witness ==
    /\ panicked
    /\ last.op = "run_systems"
    /\ last.res = "Panic"
    /\ systems = <<"optional_resource_system", "time_reader_system">>
    /\ Len(invoked) = 2
    /\ invoked[1].called
    /\ ~invoked[2].called
    /\ invoked[2].missing = "Time"
    /\ resources["Counter"] = Resource(AbsentMark)
    /\ run.start.resources["Counter"] # resources["Counter"]

\* the (entity, component type) pairs for which get_component returns a value
Attachments ==
    {<<e, c>> \in alive \X ComponentTypes : get_component(c, e) # NoValue}

\* C37: from the call of run_systems to its return, the system list, the generation
\* table, the free list and the live entities do not change; at every point of the
\* call the (entity, type) attachments and the stored resource types are those the
\* call began with, whatever values the systems have written.  At the return every
\* registered system has been invoked once, in registration order; a run_systems
\* called again right after finds the same list, so k calls in a row invoke each
\* system k times in that order.
C37_RunSystemsFrame ==
    /\ [](run.active =>
             /\ Attachments =
                   {<<e, c>> \in alive \X ComponentTypes : StartValue(c, e) # NoValue}
             /\ {r \in ResourceTypes : has_resource(r)} =
                   {r \in ResourceTypes : run.start.resources[r] # NoResource})
    /\ []((last.op = "run_systems" /\ last.res = "Ok") =>
             /\ Len(invoked) = system_count
             /\ \A k \in 1 .. Len(invoked) : invoked[k].called /\ invoked[k].sys = systems[k])
    /\ [][ (run.active \/ run'.active) =>
              /\ UNCHANGED <<systems, generations, free_list, alive>>
              /\ system_count' = system_count
              /\ Attachments' = Attachments
              /\ \A r \in ResourceTypes : has_resource(r)' = has_resource(r) ]_vars

\* run_systems has invoked movement_system and time_reader_system and is about to
\* return: an entity has moved and the Counter has counted, a second entity without
\* Velocity is where it was, and entities, attachments and resource types are as
\* before
C37_Witness ==
    /\ run.active
    /\ ~panicked
    /\ systems = <<"movement_system", "time_reader_system">>
    /\ run.index = 2
    /\ Len(invoked) = 2
    /\ Cardinality(alive) = 2
    /\ Cardinality(Attachments) = 3
    /\ \E e \in alive : /\ get_component("Velocity", e) = 1
                        /\ get_component("Position", e) = StartValue("Position", e) + 1
    /\ get_resource("Counter") = run.start.resources["Counter"][1] + 1

\* C38: destroy_entity(e) leaves, for every other handle that is valid and every
\* component type, get_component as it was, also for an entity the swap removal moves
\* into the slot e gives up; when it returns Ok, e holds no component afterwards, and
\* when it returns an error no store changes; the resources and the system list are
\* unchanged in every case.
C38_DestroyFrame ==
    [][ last'.op = "destroy_entity" =>
          \A e \in {last'.e} :
              /\ UNCHANGED <<resources, systems>>
              /\ \A o \in Handles \ {e} :
                    is_valid(o) =>
                        \A c \in ComponentTypes :
                            /\ get_component(c, o)' = get_component(c, o)
                            /\ components[c] # NoStore =>
                                  SparseSetGet(components'[c][1], o.id)
                                      = SparseSetGet(components[c][1], o.id)
              /\ last'.res = "Ok" =>
                    \A c \in ComponentTypes :
                        /\ get_component(c, e)' = NoValue
                        /\ components[c] # NoStore =>
                              /\ components'[c] # NoStore
                              /\ SparseSetGet(components'[c][1], e.id) = NoValue
              /\ last'.res # "Ok" => components' = components ]_vars

\* entity 0, spawned first with a Position, has been destroyed; entity 1, spawned after
\* it, has been moved from dense slot 1 into slot 0 of the Position store and still
\* has its Position 1; the Time resource and movement_system are still registered
C38_Witness ==
    /\ last.op = "destroy_entity"
    /\ last.res = "Ok"
    /\ last.e = Entity(0, U32(1))
    /\ "Position" \in last.purged
    /\ components["Position"][1].entities = <<Entity(1, U32(1))>>
    /\ SparseSetSlot(components["Position"][1], 1) = 0
    /\ get_component("Position", Entity(1, U32(1))) = 1
    /\ has_resource("Time")
    /\ systems = <<"movement_system">>

====
